---- MODULE Spec2Model ----
(***************************************************************************)
(* Biology tutoring backend: session store, SSE event publisher and the    *)
(* Phase-1 analysis orchestrator.                                          *)
(*                                                                         *)
(* Scheduling follows asyncio: one coroutine runs at a time and gives up   *)
(* the event loop only where it really suspends, which is at a model call  *)
(* (ainvoke) and when it ends.  SessionManager and SSEPublisher calls take *)
(* an uncontended asyncio.Lock and put to unbounded queues, so they never  *)
(* suspend.  `running` names the background coroutine that holds the loop; *)
(* while it is set, no request handler and no other coroutine can step.    *)
(***************************************************************************)
EXTENDS Integers, Sequences, FiniteSets, TLC

VARIABLES
    sessions,        \* SessionManager._sessions: existing ids -> Session
    created,         \* ids handed out so far by uuid4 (never reused)
    subscribers,     \* SSEPublisher._subscribers: ids -> set of queues
    pending_events,  \* SSEPublisher._pending_events: ids -> list of events
    queues,          \* the asyncio.Queue objects made by subscribe
    clock,           \* time.time()
    coros,           \* background coroutine chain started by each upload
    running,         \* coroutine holding the event loop, 0 when it is free
    published,       \* history: events handed to publish, per id, in call order
    missed,          \* history: events published per id since a subscriber
                     \* was last present (what the next subscriber is owed)
    turns,           \* Phase-2 streaming requests being served
    ret              \* what the last completed call returned or raised

vars == <<sessions, created, subscribers, pending_events, queues, clock,
          coros, running, published, missed, turns, ret>>

store_vars == <<sessions, created>>
sse_vars == <<subscribers, pending_events, queues, published, missed>>
loop_vars == <<coros, running>>
chat_vars == <<turns, ret>>

----------------------------------------------------------------------------
(* Bounds of the model *)

MaxUploads == 1
MaxQueues == 1
MaxSubscribers == 2
MaxPublish == 3
MaxClock == 1
max_pending_events == 2
MaxMessages == 12
MaxHistory == 4
MaxSteps == 3
MaxLogicSteps == 8
MaxBlocks == 9

SessionIds == {"s1"}
PublisherIds == {"s1", "s2"}
Uploads == 1..MaxUploads
\* the streaming requests that can be in flight at a time
TurnIds == {1, 2}

NULL == "None"

----------------------------------------------------------------------------
(* session/models.py *)

PENDING == "pending"
RUNNING == "running"
COMPLETED == "completed"
FAILED == "failed"

TaskStatus == {PENDING, RUNNING, COMPLETED, FAILED}

TaskNames == {"vision_extraction", "exam_points", "deep_solution",
              "knowledge_points", "logic_chain"}

TaskState == [status |-> PENDING, result |-> NULL, error |-> NULL]

start(task) == [task EXCEPT !.status = RUNNING]

\* complete() that stores the result and leaves the status alone
complete_without_status(task, result) ==
    [task EXCEPT !.result = result]

complete(task, result) == [task EXCEPT !.status = COMPLETED, !.result = result]

\* fail() that sets the status and records no error
fail_without_error(task, error) ==
    [task EXCEPT !.status = FAILED]

fail(task, error) == [task EXCEPT !.status = FAILED, !.error = error]

\* frontend_model_config is kept per role as what _get_model_for_session
\* makes of it: "default" (no config or no api key: the process default),
\* "dynamic" (api key and model id), "no_model_id" (api key, model id None).
RoleConfig == {"default", "dynamic", "no_model_id"}

DefaultModelConfig == [vision |-> "default", deep |-> "default", quick |-> "default"]

Session(session_id) ==
    [session_id |-> session_id,
     frontend_model_config |-> DefaultModelConfig,
     image_data |-> NULL,
     conversation_state |-> "initial",
     tasks |-> [t \in TaskNames |-> TaskState],
     question_text |-> NULL,
     exam_points |-> NULL,
     solution |-> NULL,
     knowledge_points |-> NULL,
     common_mistakes |-> NULL,
     logic_chain_steps |-> NULL,
     thinking_pattern |-> NULL,
     user_thinking |-> NULL,
     tutoring_style |-> NULL,
     messages |-> <<>>,
     phase2_state |-> "awaiting_mode",
     guided_steps |-> <<>>,
     current_step_index |-> 0,
     step_conversation_history |-> <<>>]

INITIAL == "initial"
AWAITING_THINKING == "awaiting_thinking"
AWAITING_STYLE == "awaiting_style"
TUTORING == "tutoring"
ConversationState == {INITIAL, AWAITING_THINKING, AWAITING_STYLE, TUTORING, COMPLETED}

GUIDED == "guided"
DIRECT == "direct"
TutoringStyle == {GUIDED, DIRECT}

AWAITING_MODE == "awaiting_mode"
DIRECT_OUTPUT == "direct_output"
GUIDED_INIT == "guided_init"
GUIDING_STEP == "guiding_step"
Phase2State == {AWAITING_MODE, DIRECT_OUTPUT, GUIDED_INIT, GUIDING_STEP, COMPLETED}

\* title and texts of a step play no part in the control flow
GuidedStep(index) == [index |-> index, completed |-> FALSE]

\* None is 0 here; a step is returned as its position in guided_steps
get_current_step(session) ==
    IF 0 <= session.current_step_index
          /\ session.current_step_index < Len(session.guided_steps)
    THEN session.current_step_index + 1
    ELSE 0

\* the session after the call; the call returns all_done
mark_current_step_complete_without_flag(session) ==
    IF session.current_step_index < Len(session.guided_steps)
    THEN [session EXCEPT !.current_step_index = @ + 1]
    ELSE session

mark_current_step_complete(session) ==
    IF session.current_step_index < Len(session.guided_steps)
    THEN [session EXCEPT !.guided_steps[session.current_step_index + 1].completed = TRUE,
                         !.current_step_index = @ + 1]
    ELSE session

all_done_after_false_when_done(session) ==
    IF session.current_step_index < Len(session.guided_steps)
    THEN session.current_step_index + 1 >= Len(session.guided_steps)
    ELSE FALSE

all_done_after(session) ==
    IF session.current_step_index < Len(session.guided_steps)
    THEN session.current_step_index + 1 >= Len(session.guided_steps)
    ELSE TRUE

mark_all_steps_complete_keeps_index(session) ==
    [session EXCEPT !.guided_steps = [i \in DOMAIN @ |-> [@[i] EXCEPT !.completed = TRUE]]]

mark_all_steps_complete(session) ==
    [session EXCEPT !.guided_steps = [i \in DOMAIN @ |-> [@[i] EXCEPT !.completed = TRUE]],
                    !.current_step_index = Len(session.guided_steps)]

is_all_tasks_completed_failed_blocks(session) ==
    \A t \in TaskNames : session.tasks[t].status \in {COMPLETED}

is_all_tasks_completed(session) ==
    \A t \in TaskNames : session.tasks[t].status \in {COMPLETED, FAILED}

\* the dictionaries of to_dict; an enum member is its value, as everywhere
\* here, and the time stamps are not kept
TaskState_to_dict(task) ==
    [status |-> task.status, result |-> task.result, error |-> task.error]

GuidedStep_to_dict(step) == [index |-> step.index, completed |-> step.completed]

to_dict(session) ==
    [session_id |-> session.session_id,
     user_thinking |-> session.user_thinking,
     tutoring_style |-> IF session.tutoring_style # NULL THEN session.tutoring_style ELSE NULL,
     conversation_state |-> session.conversation_state,
     tasks |-> [name \in DOMAIN session.tasks |-> TaskState_to_dict(session.tasks[name])],
     question_text |-> session.question_text,
     exam_points |-> session.exam_points,
     solution |-> session.solution,
     knowledge_points |-> session.knowledge_points,
     common_mistakes |-> session.common_mistakes,
     logic_chain_steps |-> session.logic_chain_steps,
     thinking_pattern |-> session.thinking_pattern,
     phase2_state |-> session.phase2_state,
     guided_steps |-> [i \in DOMAIN session.guided_steps |->
                          GuidedStep_to_dict(session.guided_steps[i])],
     current_step_index |-> session.current_step_index]

----------------------------------------------------------------------------
(* session/manager.py: each operator is the store after the call; the     *)
(* caller raises KeyError first when the id is absent.                     *)

Exists(session_id) == session_id \in DOMAIN sessions

create_session(store, session_id) ==
    [s \in DOMAIN store \cup {session_id} |->
        IF s = session_id THEN Session(session_id) ELSE store[s]]

\* setattr per keyword, in order; stops at the first key Session does not have
RECURSIVE apply_kwargs(_, _)
apply_kwargs(session, kwargs) ==
    IF kwargs = <<>> THEN session
    ELSE IF Head(kwargs)[1] \in DOMAIN session
         THEN apply_kwargs([session EXCEPT ![Head(kwargs)[1]] = Head(kwargs)[2]],
                           Tail(kwargs))
         ELSE session

update_session(store, session_id, kwargs) ==
    [store EXCEPT ![session_id] = apply_kwargs(@, kwargs)]

update_task_status(store, session_id, task_name, status, result, error) ==
    [store EXCEPT ![session_id].tasks[task_name] =
        CASE status = RUNNING -> start(@)
          [] status = COMPLETED -> complete(@, result)
          [] status = FAILED -> fail(@, IF error = "" THEN "Unknown error" ELSE error)
          [] OTHER -> [@ EXCEPT !.status = status]]

delete_session(store, session_id) ==
    [s \in DOMAIN store \ {session_id} |-> store[s]]

\* whether update_session raises AttributeError for these keywords
has_unknown_key(session, kwargs) ==
    \E i \in DOMAIN kwargs : kwargs[i][1] \notin DOMAIN session

set_conversation_state(store, session_id, state) ==
    update_session(store, session_id, <<<<"conversation_state", state>>>>)

add_message_overwrites(store, session_id, role, content) ==
    [store EXCEPT ![session_id].messages = <<[role |-> role, content |-> content]>>]

add_message(store, session_id, role, content) ==
    [store EXCEPT ![session_id].messages = Append(@, [role |-> role, content |-> content])]

----------------------------------------------------------------------------
(* sse/publisher.py *)

\* id is the object's identity (its position in the session's publish
\* order) and by the coroutine that made the call (0: a request handler)
SSEEvent(id, type, task, error) ==
    [id |-> id, type |-> type, task |-> task, error |-> error, timestamp |-> clock,
     by |-> running]

\* list.sort(key=timestamp): stable, ascending
RECURSIVE insert_by_timestamp(_, _)
insert_by_timestamp(sorted, event) ==
    IF sorted = <<>> THEN <<event>>
    ELSE IF sorted[Len(sorted)].timestamp <= event.timestamp
         THEN Append(sorted, event)
         ELSE Append(insert_by_timestamp(SubSeq(sorted, 1, Len(sorted) - 1), event),
                     sorted[Len(sorted)])

RECURSIVE sort_by_timestamp(_)
sort_by_timestamp(pending) ==
    IF pending = <<>> THEN <<>>
    ELSE insert_by_timestamp(sort_by_timestamp(SubSeq(pending, 1, Len(pending) - 1)),
                             pending[Len(pending)])

has_subscribers(session_id) ==
    session_id \in DOMAIN subscribers /\ subscribers[session_id] # {}

get_pending_count(session_id) ==
    IF session_id \in DOMAIN pending_events THEN Len(pending_events[session_id]) ELSE 0

\* a drain that loses the oldest buffered event
drain_pending_drops_oldest(pending_map, session_id) ==
    IF session_id \in DOMAIN pending_map /\ pending_map[session_id] # <<>>
    THEN Tail(sort_by_timestamp(pending_map[session_id]))
    ELSE <<>>

\* the events subscribe puts on the new queue
drain_pending(pending_map, session_id) ==
    IF session_id \in DOMAIN pending_map
    THEN sort_by_timestamp(pending_map[session_id])
    ELSE <<>>

\* a publish that stops after the first subscriber
put_to_first_subscriber(qs, subs, event) ==
    [q \in DOMAIN qs |->
        IF q \in subs /\ \A r \in subs : q <= r
        THEN [qs[q] EXCEPT !.items = Append(@, event)] ELSE qs[q]]

\* publish, subscriber branch: put the event on every subscribed queue
put_to_subscribers(qs, subs, event) ==
    [q \in DOMAIN qs |->
        IF q \in subs THEN [qs[q] EXCEPT !.items = Append(@, event)] ELSE qs[q]]

\* a full buffer that refuses the new event instead of dropping the oldest
append_pending_drops_newest(pending, event) ==
    IF Len(pending) >= max_pending_events THEN pending ELSE Append(pending, event)

\* publish, pending branch: append, then drop the oldest beyond the cap
append_pending(pending, event) ==
    LET appended == Append(pending, event)
    IN  IF Len(appended) > max_pending_events THEN Tail(appended) ELSE appended

remove_key(map, key) == [k \in DOMAIN map \ {key} |-> map[k]]

put_key(map, key, value) ==
    [k \in DOMAIN map \cup {key} |-> IF k = key THEN value ELSE map[k]]

subscribe_keeps_pending(session_id) ==
    LET queue == Len(queues) + 1
        old == IF session_id \in DOMAIN subscribers THEN subscribers[session_id] ELSE {}
    IN  /\ subscribers' = put_key(subscribers, session_id, old \cup {queue})
        /\ queues' = Append(queues,
                [session_id |-> session_id,
                 items |-> drain_pending(pending_events, session_id),
                 open |-> TRUE,
                 backlog |-> missed[session_id],
                 first |-> Len(published[session_id]) - missed[session_id] + 1])
        /\ missed' = [missed EXCEPT ![session_id] = 0]
        /\ UNCHANGED <<published, pending_events>>

subscribe(session_id) ==
    LET queue == Len(queues) + 1
        old == IF session_id \in DOMAIN subscribers THEN subscribers[session_id] ELSE {}
    IN  /\ subscribers' = put_key(subscribers, session_id, old \cup {queue})
        /\ queues' = Append(queues,
                [session_id |-> session_id,
                 items |-> drain_pending(pending_events, session_id),
                 open |-> TRUE,
                 backlog |-> missed[session_id],
                 first |-> Len(published[session_id]) - missed[session_id] + 1])
        /\ pending_events' = remove_key(pending_events, session_id)
        /\ missed' = [missed EXCEPT ![session_id] = 0]
        /\ UNCHANGED published

unsubscribe(session_id, queue) ==
    /\ subscribers' =
          IF session_id \in DOMAIN subscribers
          THEN IF subscribers[session_id] \ {queue} = {}
               THEN remove_key(subscribers, session_id)
               ELSE [subscribers EXCEPT ![session_id] = @ \ {queue}]
          ELSE subscribers
    /\ UNCHANGED <<pending_events, published, missed>>

publish(session_id, event_type, task, error) ==
    LET event == SSEEvent(Len(published[session_id]) + 1, event_type, task, error)
        subs == IF session_id \in DOMAIN subscribers THEN subscribers[session_id] ELSE {}
    IN  /\ published' = [published EXCEPT ![session_id] = Append(@, event)]
        /\ IF subs # {}
           THEN /\ queues' = put_to_subscribers(queues, subs, event)
                /\ UNCHANGED <<pending_events, missed>>
           ELSE /\ pending_events' = put_key(pending_events, session_id,
                        append_pending(IF session_id \in DOMAIN pending_events
                                       THEN pending_events[session_id] ELSE <<>>, event))
                /\ missed' = [missed EXCEPT ![session_id] = @ + 1]
                /\ UNCHANGED queues
        /\ UNCHANGED subscribers

event_type_map(task_name) ==
    CASE task_name = "vision_extraction" -> "question_extracted"
      [] task_name = "exam_points" -> "exam_points_ready"
      [] task_name = "deep_solution" -> "solution_ready"
      [] task_name = "knowledge_points" -> "knowledge_ready"
      [] task_name = "logic_chain" -> "logic_chain_ready"
      [] OTHER -> "task_completed"

publish_task_completed(session_id, task_name) ==
    publish(session_id, event_type_map(task_name), task_name, NULL)

publish_task_failed(session_id, task_name, error) ==
    publish(session_id, "task_failed", task_name, error)

publish_session_complete(session_id) ==
    publish(session_id, "session_complete", NULL, NULL)

clear_session_keeps_pending(session_id) ==
    /\ subscribers' = remove_key(subscribers, session_id)
    /\ missed' = [missed EXCEPT ![session_id] = 0]
    /\ UNCHANGED <<queues, published, pending_events>>

clear_session(session_id) ==
    /\ subscribers' = remove_key(subscribers, session_id)
    /\ pending_events' = remove_key(pending_events, session_id)
    /\ missed' = [missed EXCEPT ![session_id] = 0]
    /\ UNCHANGED <<queues, published>>

----------------------------------------------------------------------------
(* workflow/biology_tutor.py: model selection and error text *)

ModelConfigs ==
    {DefaultModelConfig,
     [vision |-> "no_model_id", deep |-> "default", quick |-> "default"],
     [vision |-> "default", deep |-> "dynamic", quick |-> "no_model_id"]}

\* _get_model_for_session raises AttributeError (None.startswith) when the
\* role has an api key and no model id
get_model_raises(session, model_type) ==
    session.frontend_model_config[model_type] = "no_model_id"

\* what a model-backed chain call can end with
ModelExceptions == {"", "401 unauthorized"}
ChainResults == {"ok"} \cup ModelExceptions
\* what one branch of a RunnableParallel call ends with
BranchResults == {"ok", ""}
NotCalled == "-"

\* the friendlier message of the except blocks of _run_vision_extraction
\* and _run_parallel_analysis
classify_error(error_str) ==
    IF error_str = "401 unauthorized" THEN "API auth failed" ELSE error_str

\* value written for each result field
ResultOf(task_name) ==
    CASE task_name = "vision_extraction" -> "question text"
      [] task_name = "exam_points" -> "exam points"
      [] task_name = "deep_solution" -> "solution"
      [] task_name = "knowledge_points" -> "knowledge"
      [] task_name = "logic_chain" -> "logic"

----------------------------------------------------------------------------
(* workflow/biology_tutor.py: the background coroutines.                   *)
(* Each upload starts _run_vision_extraction, which hands over to          *)
(* _run_parallel_analysis, which hands over to _run_knowledge_parallel, so *)
(* coros[p] holds the position and locals of the one live coroutine of the *)
(* chain.  A position is one store or publisher call of the source.        *)

KeyErrorStr == "Session not found"
AttributeErrorStr == "NoneType has no attribute startswith"

IdleCoro ==
    [pc |-> "idle", session_id |-> NULL, error |-> NULL,
     results |-> [t \in TaskNames |-> NotCalled]]

\* positions at which the coroutine does not hold the event loop
OffLoop == {"idle", "v_start", "v_await", "pa_await", "kp_await", "dead"}

I(fn, op, a, b, cls, next, exc) ==
    [fn |-> fn, op |-> op, a |-> a, b |-> b, cls |-> cls, next |-> next, exc |-> exc]

RunVisionExtractionCode(pc) ==
    CASE pc = "v_start" ->
            I("vision", "task_status", "vision_extraction", RUNNING, FALSE, "v_model", "dead")
      [] pc = "v_model" ->
            I("vision", "get_model", "vision", NULL, FALSE, "v_await", "v_except")
      [] pc = "v_store" ->
            I("vision", "update_session", <<<<"question_text", ResultOf("vision_extraction")>>>>,
              NULL, FALSE, "v_complete", "v_except")
      [] pc = "v_complete" ->
            I("vision", "task_status", "vision_extraction", COMPLETED, FALSE, "v_publish", "v_except")
      [] pc = "v_publish" ->
            I("vision", "publish_completed", "vision_extraction", NULL, FALSE, "spa_get", "v_except")
      [] pc = "v_except" ->
            I("vision", "task_status", "vision_extraction", FAILED, TRUE, "v_except_pub", "dead")
      [] pc = "v_except_pub" ->
            I("vision", "publish_failed", "vision_extraction", NULL, TRUE, "dead", "dead")

StartParallelAnalysisCode(pc) ==
    CASE pc = "spa_get" ->
            I("start_parallel", "get_session", NULL, NULL, FALSE, "spa_exam", "dead")
      [] pc = "spa_exam" ->
            I("start_parallel", "task_status", "exam_points", RUNNING, FALSE, "spa_solution", "v_except")
      [] pc = "spa_solution" ->
            I("start_parallel", "task_status", "deep_solution", RUNNING, FALSE, "spa_quick", "v_except")
      [] pc = "spa_quick" ->
            I("start_parallel", "get_model", "quick", NULL, FALSE, "spa_deep", "v_except")
      [] pc = "spa_deep" ->
            I("start_parallel", "get_model", "deep", NULL, FALSE, "pa_await", "v_except")

RunParallelAnalysisCode(pc) ==
    CASE pc = "pa_except" ->
            I("parallel", "task_status", "exam_points", FAILED, TRUE, "pa_except2", "dead")
      [] pc = "pa_except2" ->
            I("parallel", "task_status", "deep_solution", FAILED, TRUE, "pa_except_pub", "dead")
      [] pc = "pa_except_pub" ->
            I("parallel", "publish_failed", "exam_points", NULL, TRUE, "pa_except_pub2", "dead")
      [] pc = "pa_except_pub2" ->
            I("parallel", "publish_failed", "deep_solution", NULL, TRUE, "dead", "dead")

HandleExamPointsResultCode(pc) ==
    CASE pc = "ep_store" ->
            I("exam_points", "update_session", <<<<"exam_points", ResultOf("exam_points")>>>>,
              NULL, FALSE, "ep_complete", "ep_except")
      [] pc = "ep_complete" ->
            I("exam_points", "task_status", "exam_points", COMPLETED, FALSE, "ep_publish", "ep_except")
      [] pc = "ep_publish" ->
            I("exam_points", "publish_completed", "exam_points", NULL, FALSE, "sol_store", "ep_except")
      [] pc = "ep_except" ->
            I("exam_points", "task_status", "exam_points", FAILED, FALSE, "ep_except_pub", "pa_except")
      [] pc = "ep_except_pub" ->
            I("exam_points", "publish_failed", "exam_points", NULL, FALSE, "sol_store", "pa_except")

HandleSolutionResultCode_publishes_first(pc) ==
    CASE pc = "sol_store" ->
            I("solution", "publish_completed", "deep_solution", NULL, FALSE, "sol_complete", "sol_except")
      [] pc = "sol_complete" ->
            I("solution", "task_status", "deep_solution", COMPLETED, FALSE, "sol_publish", "sol_except")
      [] pc = "sol_publish" ->
            I("solution", "update_session", <<<<"solution", ResultOf("deep_solution")>>>>,
              NULL, FALSE, "ske_knowledge", "sol_except")
      [] pc = "sol_except" ->
            I("solution", "task_status", "deep_solution", FAILED, FALSE, "sol_except_pub", "pa_except")
      [] pc = "sol_except_pub" ->
            I("solution", "publish_failed", "deep_solution", NULL, FALSE, "dead", "pa_except")

HandleSolutionResultCode(pc) ==
    CASE pc = "sol_store" ->
            I("solution", "update_session", <<<<"solution", ResultOf("deep_solution")>>>>,
              NULL, FALSE, "sol_complete", "sol_except")
      [] pc = "sol_complete" ->
            I("solution", "task_status", "deep_solution", COMPLETED, FALSE, "sol_publish", "sol_except")
      [] pc = "sol_publish" ->
            I("solution", "publish_completed", "deep_solution", NULL, FALSE, "ske_knowledge", "sol_except")
      [] pc = "sol_except" ->
            I("solution", "task_status", "deep_solution", FAILED, FALSE, "sol_except_pub", "pa_except")
      [] pc = "sol_except_pub" ->
            I("solution", "publish_failed", "deep_solution", NULL, FALSE, "dead", "pa_except")

StartKnowledgeExtractionCode(pc) ==
    CASE pc = "ske_knowledge" ->
            I("start_knowledge", "task_status", "knowledge_points", RUNNING, FALSE, "ske_logic", "sol_except")
      [] pc = "ske_logic" ->
            I("start_knowledge", "task_status", "logic_chain", RUNNING, FALSE, "ske_quick", "sol_except")
      [] pc = "ske_quick" ->
            I("start_knowledge", "get_model", "quick", NULL, FALSE, "kp_await", "sol_except")

RunKnowledgeParallelCode(pc) ==
    CASE pc = "kp_except" ->
            I("knowledge_parallel", "task_status", "knowledge_points", FAILED, FALSE, "kp_except2", "dead")
      [] pc = "kp_except2" ->
            I("knowledge_parallel", "task_status", "logic_chain", FAILED, FALSE, "kp_except_pub", "dead")
      [] pc = "kp_except_pub" ->
            I("knowledge_parallel", "publish_failed", "knowledge_points", NULL, FALSE, "kp_except_pub2", "dead")
      [] pc = "kp_except_pub2" ->
            I("knowledge_parallel", "publish_failed", "logic_chain", NULL, FALSE, "dead", "dead")

HandleKnowledgeResultCode(pc) ==
    CASE pc = "kn_store" ->
            I("knowledge", "store_knowledge",
              <<<<"knowledge_points", ResultOf("knowledge_points")>>,
                <<"common_mistakes", "mistakes">>>>,
              NULL, FALSE, "kn_complete", "kn_except")
      [] pc = "kn_complete" ->
            I("knowledge", "task_status", "knowledge_points", COMPLETED, FALSE, "kn_publish", "kn_except")
      [] pc = "kn_publish" ->
            I("knowledge", "publish_completed", "knowledge_points", NULL, FALSE, "lg_store", "kn_except")
      [] pc = "kn_except" ->
            I("knowledge", "task_status", "knowledge_points", FAILED, FALSE, "kn_except_pub", "kp_except")
      [] pc = "kn_except_pub" ->
            I("knowledge", "publish_failed", "knowledge_points", NULL, FALSE, "lg_store", "kp_except")

HandleLogicResultCode(pc) ==
    CASE pc = "lg_store" ->
            I("logic", "update_session",
              <<<<"logic_chain_steps", ResultOf("logic_chain")>>,
                <<"thinking_pattern", "pattern">>>>,
              NULL, FALSE, "lg_complete", "lg_except")
      [] pc = "lg_complete" ->
            I("logic", "task_status", "logic_chain", COMPLETED, FALSE, "lg_publish", "lg_except")
      [] pc = "lg_publish" ->
            I("logic", "publish_completed", "logic_chain", NULL, FALSE, "check", "lg_except")
      [] pc = "lg_except" ->
            I("logic", "task_status", "logic_chain", FAILED, FALSE, "lg_except_pub", "kp_except")
      [] pc = "lg_except_pub" ->
            I("logic", "publish_failed", "logic_chain", NULL, FALSE, "check", "kp_except")

CheckSessionCompleteCode(pc) ==
    CASE pc = "check" ->
            I("check", "check_complete", NULL, NULL, FALSE, "dead", "kp_except")

VisionPcs == {"v_start", "v_model", "v_store", "v_complete", "v_publish",
              "v_except", "v_except_pub"}
StartParallelPcs == {"spa_get", "spa_exam", "spa_solution", "spa_quick", "spa_deep"}
ParallelPcs == {"pa_except", "pa_except2", "pa_except_pub", "pa_except_pub2"}
ExamPointsPcs == {"ep_store", "ep_complete", "ep_publish", "ep_except", "ep_except_pub"}
SolutionPcs == {"sol_store", "sol_complete", "sol_publish", "sol_except", "sol_except_pub"}
StartKnowledgePcs == {"ske_knowledge", "ske_logic", "ske_quick"}
KnowledgeParallelPcs == {"kp_except", "kp_except2", "kp_except_pub", "kp_except_pub2"}
KnowledgePcs == {"kn_store", "kn_complete", "kn_publish", "kn_except", "kn_except_pub"}
LogicPcs == {"lg_store", "lg_complete", "lg_publish", "lg_except", "lg_except_pub"}
CheckPcs == {"check"}

Code(pc) ==
    CASE pc \in VisionPcs -> RunVisionExtractionCode(pc)
      [] pc \in StartParallelPcs -> StartParallelAnalysisCode(pc)
      [] pc \in ParallelPcs -> RunParallelAnalysisCode(pc)
      [] pc \in ExamPointsPcs -> HandleExamPointsResultCode(pc)
      [] pc \in SolutionPcs -> HandleSolutionResultCode(pc)
      [] pc \in StartKnowledgePcs -> StartKnowledgeExtractionCode(pc)
      [] pc \in KnowledgeParallelPcs -> RunKnowledgeParallelCode(pc)
      [] pc \in KnowledgePcs -> HandleKnowledgeResultCode(pc)
      [] pc \in LogicPcs -> HandleLogicResultCode(pc)
      [] pc \in CheckPcs -> CheckSessionCompleteCode(pc)

----------------------------------------------------------------------------
(* Execution of one position *)

Goto(p, pc) ==
    /\ coros' = [coros EXCEPT ![p].pc = pc]
    /\ running' = IF pc \in OffLoop THEN 0 ELSE p

Raise(p, pc, error_str) ==
    /\ coros' = [coros EXCEPT ![p].pc = pc, ![p].error = error_str]
    /\ running' = IF pc \in OffLoop THEN 0 ELSE p

\* the coroutine may take its next position: it holds the loop, or it was
\* scheduled by create_task and the loop is free
OnLoop(p) ==
    \/ running = p
    \/ running = 0 /\ coros[p].pc = "v_start"

Exec(p) ==
    LET c == coros[p]
        i == Code(c.pc)
        sid == c.session_id
        msg == IF i.cls THEN classify_error(c.error) ELSE c.error
    IN  /\ UNCHANGED <<created, clock, chat_vars>>
        /\ CASE i.op = "update_session" ->
                  /\ IF Exists(sid)
                     THEN /\ sessions' = update_session(sessions, sid, i.a)
                          /\ Goto(p, i.next)
                     ELSE /\ UNCHANGED sessions
                          /\ Raise(p, i.exc, KeyErrorStr)
                  /\ UNCHANGED sse_vars
             [] i.op = "store_knowledge" ->
                  \* the list comprehension over common_mistakes runs first and
                  \* raises AttributeError when an entry is not a dict
                  /\ IF c.results["knowledge_points"] = "ok_str_mistakes"
                     THEN /\ UNCHANGED sessions
                          /\ Raise(p, i.exc, "str has no attribute get")
                     ELSE IF Exists(sid)
                          THEN /\ sessions' = update_session(sessions, sid, i.a)
                               /\ Goto(p, i.next)
                          ELSE /\ UNCHANGED sessions
                               /\ Raise(p, i.exc, KeyErrorStr)
                  /\ UNCHANGED sse_vars
             [] i.op = "task_status" ->
                  /\ IF Exists(sid)
                     THEN /\ sessions' = update_task_status(sessions, sid, i.a, i.b,
                                                            ResultOf(i.a), msg)
                          /\ Goto(p, i.next)
                     ELSE /\ UNCHANGED sessions
                          /\ Raise(p, i.exc, KeyErrorStr)
                  /\ UNCHANGED sse_vars
             [] i.op = "get_session" ->
                  /\ Goto(p, IF Exists(sid) THEN i.next ELSE i.exc)
                  /\ UNCHANGED <<sessions, sse_vars>>
             [] i.op = "get_model" ->
                  /\ IF Exists(sid) /\ get_model_raises(sessions[sid], i.a)
                     THEN Raise(p, i.exc, AttributeErrorStr)
                     ELSE Goto(p, i.next)
                  /\ UNCHANGED <<sessions, sse_vars>>
             [] i.op = "publish_completed" ->
                  /\ publish_task_completed(sid, i.a)
                  /\ Goto(p, i.next)
                  /\ UNCHANGED sessions
             [] i.op = "publish_failed" ->
                  /\ publish_task_failed(sid, i.a, msg)
                  /\ Goto(p, i.next)
                  /\ UNCHANGED sessions
             [] i.op = "check_complete" ->
                  /\ IF Exists(sid) /\ is_all_tasks_completed(sessions[sid])
                     THEN publish_session_complete(sid)
                     ELSE UNCHANGED sse_vars
                  /\ Goto(p, i.next)
                  /\ UNCHANGED sessions

----------------------------------------------------------------------------
(* Background coroutines, one action per function of the orchestrator *)

RunVisionExtraction(p) ==
    /\ coros[p].pc \in VisionPcs /\ OnLoop(p) /\ Exec(p)

StartParallelAnalysis(p) ==
    /\ coros[p].pc \in StartParallelPcs /\ OnLoop(p) /\ Exec(p)

RunParallelAnalysis(p) ==
    /\ coros[p].pc \in ParallelPcs /\ OnLoop(p) /\ Exec(p)

HandleExamPointsResult(p) ==
    /\ coros[p].pc \in ExamPointsPcs /\ OnLoop(p) /\ Exec(p)

HandleSolutionResult(p) ==
    /\ coros[p].pc \in SolutionPcs /\ OnLoop(p) /\ Exec(p)

StartKnowledgeExtraction(p) ==
    /\ coros[p].pc \in StartKnowledgePcs /\ OnLoop(p) /\ Exec(p)

RunKnowledgeParallel(p) ==
    /\ coros[p].pc \in KnowledgeParallelPcs /\ OnLoop(p) /\ Exec(p)

HandleKnowledgeResult(p) ==
    /\ coros[p].pc \in KnowledgePcs /\ OnLoop(p) /\ Exec(p)

HandleLogicResult(p) ==
    /\ coros[p].pc \in LogicPcs /\ OnLoop(p) /\ Exec(p)

CheckSessionComplete(p) ==
    /\ coros[p].pc \in CheckPcs /\ OnLoop(p) /\ Exec(p)

(* The awaited model calls return or raise *)

\* vision_chain.ainvoke
VisionChainReturns(p, r) ==
    /\ running = 0
    /\ coros[p].pc = "v_await"
    /\ coros' = [coros EXCEPT ![p].results["vision_extraction"] = r,
                              ![p].error = IF r = "ok" THEN @ ELSE r,
                              ![p].pc = IF r = "ok" THEN "v_store" ELSE "v_except"]
    /\ running' = p
    /\ clock' = clock + 1
    /\ UNCHANGED <<store_vars, sse_vars, chat_vars>>

\* RunnableParallel.ainvoke: raises when either branch raises
ParallelReturns(p, task_a, task_b, ra, rb, e, ok_pc, exc_pc) ==
    /\ running = 0
    /\ e \in ({ra, rb} \cap ModelExceptions) \cup
             (IF {ra, rb} \cap ModelExceptions = {} THEN {NULL} ELSE {})
    /\ coros' = [coros EXCEPT ![p].results[task_a] = ra,
                              ![p].results[task_b] = rb,
                              ![p].error = IF e = NULL THEN @ ELSE e,
                              ![p].pc = IF e = NULL THEN ok_pc ELSE exc_pc]
    /\ running' = p
    /\ clock' = clock + 1
    /\ UNCHANGED <<store_vars, sse_vars, chat_vars>>

AnalysisChainReturns(p, ra, rb, e) ==
    /\ coros[p].pc = "pa_await"
    /\ ParallelReturns(p, "exam_points", "deep_solution", ra, rb, e, "ep_store", "pa_except")

KnowledgeChainReturns(p, ra, rb, e) ==
    /\ coros[p].pc = "kp_await"
    /\ ParallelReturns(p, "knowledge_points", "logic_chain", ra, rb, e, "kn_store", "kp_except")

----------------------------------------------------------------------------
(* api/routes.py: request handlers; they run when the loop is free *)

create_session_route(session_id, config) ==
    /\ running = 0
    /\ session_id \notin created
    /\ created' = created \cup {session_id}
    /\ sessions' = update_session(create_session(sessions, session_id), session_id,
                                  <<<<"frontend_model_config", config>>>>)
    /\ UNCHANGED <<sse_vars, clock, loop_vars, chat_vars>>

upload_image(session_id, p) ==
    /\ running = 0
    /\ Exists(session_id)
    /\ coros[p].pc = "idle"
    /\ \A q \in Uploads : q < p => coros[q].pc # "idle"
    \* process_image stores the image and schedules the vision coroutine,
    \* then the route resets the conversation state
    /\ sessions' = update_session(sessions, session_id,
                        <<<<"image_data", "image">>, <<"conversation_state", "initial">>>>)
    /\ coros' = [coros EXCEPT ![p].pc = "v_start", ![p].session_id = session_id]
    /\ UNCHANGED <<created, sse_vars, clock, running, chat_vars>>

delete_session_route(session_id) ==
    /\ running = 0
    /\ Exists(session_id)
    /\ sessions' = delete_session(sessions, session_id)
    /\ clear_session(session_id)
    /\ UNCHANGED <<created, clock, loop_vars, chat_vars>>

subscribe_events(session_id) ==
    /\ running = 0
    /\ Exists(session_id)
    /\ Len(queues) < MaxQueues
    /\ subscribe(session_id)
    /\ UNCHANGED <<store_vars, clock, loop_vars, chat_vars>>

\* event_generator cancelled while it waits for an event: it unsubscribes
\* and ends, and its queue goes with it, whatever was still on it; a second
\* cancellation cannot happen and would change nothing
event_generator_cancelled(q) ==
    /\ running = 0
    /\ queues[q].open
    /\ unsubscribe(queues[q].session_id, q)
    /\ queues' = [queues EXCEPT ![q] = [@ EXCEPT !.open = FALSE, !.items = <<>>,
                                                !.backlog = 0, !.first = 1]]
    /\ UNCHANGED <<store_vars, clock, loop_vars, chat_vars>>

\* event_generator closed while it is suspended at a yield (the connected
\* line, an event or a keepalive being sent when the client goes away):
\* GeneratorExit is neither CancelledError nor an Exception, so neither
\* except clause runs and the queue stays registered
event_generator_closed(q) ==
    /\ running = 0
    /\ queues[q].open
    /\ queues' = [queues EXCEPT ![q].open = FALSE]
    /\ UNCHANGED <<subscribers, pending_events, published, missed>>
    /\ UNCHANGED <<store_vars, clock, loop_vars, chat_vars>>

get_status(session) ==
    [tasks |-> [t \in TaskNames |-> session.tasks[t].status],
     has_question |-> session.question_text # NULL,
     has_solution |-> session.solution # NULL]

----------------------------------------------------------------------------
(* The system: store, publisher and orchestrator behind the routes *)

\* a free request slot, and the value of ret before any call returned
\* (pc: the await or yield the generator is suspended at; the message is
\* read before the first suspension only and is not kept; streamed: the
\* chunks it yielded; current_step: the local of _handle_guided_response, as
\* get_current_step gives it, kept up to its last use by the evaluation and
\* the summary; appended, evaluated, reply_count, all_done: what it did;
\* failed: the evaluation chain raised and evaluate_completion caught it)
IdleTurn ==
    [pc |-> "idle", session_id |-> NULL, path |-> NULL,
     streamed |-> <<>>, appended |-> 0, evaluated |-> FALSE, reply_count |-> -1,
     all_done |-> FALSE, current_step |-> 0, failed |-> FALSE]
NoCall ==
    [op |-> NULL, session_id |-> NULL, message |-> <<>>, result |-> NULL,
     response |-> <<>>]
Replied(op, session_id, message, result, response) ==
    [op |-> op, session_id |-> session_id, message |-> message, result |-> result,
     response |-> response]

Init ==
    /\ sessions = <<>>
    /\ created = {}
    /\ subscribers = <<>>
    /\ pending_events = <<>>
    /\ queues = <<>>
    /\ clock = 0
    /\ coros = [p \in Uploads |-> IdleCoro]
    /\ running = 0
    /\ published = [s \in PublisherIds |-> <<>>]
    /\ missed = [s \in PublisherIds |-> 0]
    /\ turns = [t \in TurnIds |-> IdleTurn]
    /\ ret = NoCall

Next ==
    \/ \E s \in SessionIds, cfg \in ModelConfigs : create_session_route(s, cfg)
    \/ \E s \in SessionIds, p \in Uploads : upload_image(s, p)
    \/ \E s \in SessionIds : delete_session_route(s)
    \/ \E s \in SessionIds : subscribe_events(s)
    \/ \E q \in DOMAIN queues : event_generator_cancelled(q)
    \/ \E q \in DOMAIN queues : event_generator_closed(q)
    \/ \E p \in Uploads : RunVisionExtraction(p)
    \/ \E p \in Uploads, r \in ChainResults : VisionChainReturns(p, r)
    \/ \E p \in Uploads : StartParallelAnalysis(p)
    \/ \E p \in Uploads, ra, rb \in BranchResults, e \in ModelExceptions \cup {NULL} :
            AnalysisChainReturns(p, ra, rb, e)
    \/ \E p \in Uploads : HandleExamPointsResult(p)
    \/ \E p \in Uploads : HandleSolutionResult(p)
    \/ \E p \in Uploads : StartKnowledgeExtraction(p)
    \/ \E p \in Uploads, ra \in BranchResults \cup {"ok_str_mistakes"}, rb \in BranchResults,
          e \in ModelExceptions \cup {NULL} :
            KnowledgeChainReturns(p, ra, rb, e)
    \/ \E p \in Uploads : HandleKnowledgeResult(p)
    \/ \E p \in Uploads : HandleLogicResult(p)
    \/ \E p \in Uploads : CheckSessionComplete(p)
    \/ \E p \in Uploads : RunParallelAnalysis(p)
    \/ \E p \in Uploads : RunKnowledgeParallel(p)

Spec == Init /\ [][Next]_vars

\* what the event loop and the model service do on their own: a coroutine
\* that can take its next position takes it, and a model call that was
\* made returns or raises
LoopNext ==
    \/ \E p \in Uploads : RunVisionExtraction(p)
    \/ \E p \in Uploads, r \in ChainResults : VisionChainReturns(p, r)
    \/ \E p \in Uploads : StartParallelAnalysis(p)
    \/ \E p \in Uploads, ra, rb \in BranchResults, e \in ModelExceptions \cup {NULL} :
            AnalysisChainReturns(p, ra, rb, e)
    \/ \E p \in Uploads : HandleExamPointsResult(p)
    \/ \E p \in Uploads : HandleSolutionResult(p)
    \/ \E p \in Uploads : StartKnowledgeExtraction(p)
    \/ \E p \in Uploads, ra \in BranchResults \cup {"ok_str_mistakes"}, rb \in BranchResults,
          e \in ModelExceptions \cup {NULL} :
            KnowledgeChainReturns(p, ra, rb, e)
    \/ \E p \in Uploads : HandleKnowledgeResult(p)
    \/ \E p \in Uploads : HandleLogicResult(p)
    \/ \E p \in Uploads : CheckSessionComplete(p)
    \/ \E p \in Uploads : RunParallelAnalysis(p)
    \/ \E p \in Uploads : RunKnowledgeParallel(p)

\* the system with a loop that keeps running and model calls that end
SpecLive == Init /\ [][Next]_vars /\ WF_vars(LoopNext)

TypeOK ==
    /\ DOMAIN sessions \subseteq SessionIds
    /\ running \in 0..MaxUploads
    /\ \A p \in Uploads : coros[p].pc \in OffLoop \cup VisionPcs \cup StartParallelPcs
            \cup ParallelPcs \cup ExamPointsPcs \cup SolutionPcs \cup StartKnowledgePcs
            \cup KnowledgeParallelPcs \cup KnowledgePcs \cup LogicPcs \cup CheckPcs

----------------------------------------------------------------------------
(* The publisher on its own, driven through its public methods *)

Subscribe(session_id) ==
    /\ Len(queues) < MaxSubscribers
    /\ subscribe(session_id)
    /\ UNCHANGED <<store_vars, clock, loop_vars, chat_vars>>

\* a queue is unsubscribed under the session it was subscribed for, as the
\* event generator of the events route does
Unsubscribe(session_id, q) ==
    /\ unsubscribe(session_id, q)
    /\ UNCHANGED <<queues, store_vars, clock, loop_vars, chat_vars>>

EventTypes == {"task_failed"}

Publish(session_id, event_type) ==
    /\ Len(published["s1"]) + Len(published["s2"]) < MaxPublish
    /\ publish(session_id, event_type, NULL, NULL)
    /\ UNCHANGED <<store_vars, clock, loop_vars, chat_vars>>

ClearSession(session_id) ==
    /\ clear_session(session_id)
    /\ UNCHANGED <<store_vars, clock, loop_vars, chat_vars>>

\* time passes between calls; only publish reads the clock (the time stamp
\* of the event), so the next instant begins once this one was stamped
Tick ==
    /\ clock < MaxClock
    /\ \E s \in PublisherIds : \E i \in DOMAIN published[s] :
            published[s][i].timestamp = clock
    /\ clock' = clock + 1
    /\ UNCHANGED <<store_vars, sse_vars, loop_vars, chat_vars>>

PubNext ==
    \/ \E s \in PublisherIds : Subscribe(s)
    \/ \E q \in DOMAIN queues : Unsubscribe(queues[q].session_id, q)
    \/ \E s \in PublisherIds, t \in EventTypes : Publish(s, t)
    \/ \E s \in PublisherIds : ClearSession(s)
    \/ Tick

SpecPub == Init /\ [][PubNext]_vars

----------------------------------------------------------------------------
(* The session store on its own, driven through its public methods *)

StoreIds == PublisherIds

\* keyword arguments of one update_session call, in call order
UpdateInputs ==
    { <<<<"solution", "a">>>>,
      <<<<"solution", "b">>>>,
      <<<<"question_text", "q">>, <<"solution", "a">>>>,
      <<<<"question_text", "q">>, <<"no_such_field", "v">>>>,
      <<<<"no_such_field", "v">>, <<"solution", "b">>>>,
      <<<<"no_such_field", "v">>>> }

CreateSession(session_id) ==
    /\ ~Exists(session_id)
    /\ sessions' = create_session(sessions, session_id)
    /\ created' = created \cup {session_id}
    /\ ret' = Replied("create_session", session_id, <<>>, "ok", <<>>)
    /\ UNCHANGED <<sse_vars, clock, loop_vars, turns>>

UpdateSession(session_id, kwargs) ==
    /\ IF ~Exists(session_id)
       THEN /\ ret' = Replied("update_session", session_id, <<>>, "KeyError", <<>>)
            /\ UNCHANGED sessions
       ELSE /\ sessions' = update_session(sessions, session_id, kwargs)
            /\ ret' = Replied("update_session", session_id, <<>>,
                        IF has_unknown_key(sessions[session_id], kwargs)
                        THEN "AttributeError" ELSE "ok", <<>>)
    /\ UNCHANGED <<created, sse_vars, clock, loop_vars, turns>>

DeleteSession(session_id) ==
    /\ sessions' = IF Exists(session_id) THEN delete_session(sessions, session_id)
                   ELSE sessions
    /\ ret' = Replied("delete_session", session_id, <<>>,
                      IF Exists(session_id) THEN "True" ELSE "False", <<>>)
    /\ UNCHANGED <<created, sse_vars, clock, loop_vars, turns>>

StoreNext ==
    \/ \E s \in StoreIds : CreateSession(s)
    \/ \E s \in StoreIds, kwargs \in UpdateInputs : UpdateSession(s, kwargs)
    \/ \E s \in StoreIds : DeleteSession(s)

SpecStore == Init /\ [][StoreNext]_vars

----------------------------------------------------------------------------
(* workflow/biology_tutor.py: the Phase-1 chat.  A text is the sequence of *)
(* its characters, so the empty string is <<>>; a fixed reply is one item. *)

Whitespace == {" ", "\t", "\n"}
UpperCase == <<"A", "B", "C", "D", "E", "F", "G", "H", "I", "J", "K", "L", "M",
               "N", "O", "P", "Q", "R", "S", "T", "U", "V", "W", "X", "Y", "Z">>
LowerCase == <<"a", "b", "c", "d", "e", "f", "g", "h", "i", "j", "k", "l", "m",
               "n", "o", "p", "q", "r", "s", "t", "u", "v", "w", "x", "y", "z">>

\* str.strip()
RECURSIVE strip(_)
strip(text) ==
    IF text = <<>> THEN <<>>
    ELSE IF Head(text) \in Whitespace THEN strip(Tail(text))
    ELSE IF text[Len(text)] \in Whitespace THEN strip(SubSeq(text, 1, Len(text) - 1))
    ELSE text

\* str.lower()
lower(text) ==
    [i \in DOMAIN text |->
        IF \E k \in DOMAIN UpperCase : UpperCase[k] = text[i]
        THEN LowerCase[CHOOSE k \in DOMAIN UpperCase : UpperCase[k] = text[i]]
        ELSE text[i]]

\* phrase in text
Contains(text, phrase) ==
    \E i \in 1..(Len(text) - Len(phrase) + 1) :
        SubSeq(text, i, i + Len(phrase) - 1) = phrase

\* a character outside ASCII is written as its code point
GuidedKeyword == <<"U+5F15", "U+5BFC">>

parse_tutoring_style_first_choice_only(message) ==
    IF Contains(lower(strip(message)), <<"1">>) THEN GUIDED ELSE DIRECT

parse_tutoring_style(message) ==
    IF Contains(lower(strip(message)), <<"1">>)
          \/ Contains(lower(strip(message)), GuidedKeyword)
    THEN GUIDED ELSE DIRECT

ThinkingPrompt == <<"thinking prompt">>
StylePrompt == <<"style prompt">>
GeneralReply == <<"general reply">>

\* the reply process_message returns for a session found in this state
process_message_response(state) ==
    CASE state = INITIAL -> ThinkingPrompt
      [] state = AWAITING_THINKING -> StylePrompt
      [] state = AWAITING_STYLE -> <<>>
      [] state = TUTORING -> <<>>
      [] OTHER -> GeneralReply

\* the store after the branch of process_message taken in this state
process_message_branch(store, session_id, state, message) ==
    CASE state = INITIAL ->
            set_conversation_state(store, session_id, AWAITING_THINKING)
      [] state = AWAITING_THINKING ->
            set_conversation_state(
                update_session(store, session_id, <<<<"user_thinking", message>>>>),
                session_id, AWAITING_STYLE)
      [] state = AWAITING_STYLE ->
            set_conversation_state(
                update_session(store, session_id,
                               <<<<"tutoring_style", parse_tutoring_style(message)>>>>),
                session_id, TUTORING)
      [] OTHER -> store

\* the store after process_message: the user turn is logged, the branch of
\* the state runs, the reply is logged
process_message(store, session_id, message) ==
    LET state == store[session_id].conversation_state
        logged == add_message(store, session_id, "user", message)
    IN  add_message(process_message_branch(logged, session_id, state, message),
                    session_id, "assistant", process_message_response(state))

\* POST /session/{id}/message; no call in it suspends, so it is one step
send_message(session_id, message) ==
    /\ running = 0
    /\ IF ~Exists(session_id)
       THEN /\ ret' = Replied("send_message", session_id, message, "404", <<>>)
            /\ UNCHANGED sessions
       ELSE /\ Len(sessions[session_id].messages) + 2 <= MaxMessages
            /\ sessions' = process_message(sessions, session_id, message)
            /\ ret' = Replied("send_message", session_id, message, "200",
                        process_message_response(sessions[session_id].conversation_state))
    /\ UNCHANGED <<created, sse_vars, clock, loop_vars, turns>>

\* what a client types
Messages == { <<"1">>, <<"2", " ">>, <<"U+5F15", "U+5BFC">>, <<"U+770B", "U+7B54", "U+6848">> }

ChatNext ==
    \/ \E s \in SessionIds : CreateSession(s)
    \/ \E s \in SessionIds, m \in Messages : send_message(s, m)
    \/ \E s \in SessionIds : DeleteSession(s)

SpecChat == Init /\ [][ChatNext]_vars

----------------------------------------------------------------------------
(* workflow/phase2_workflow.py, step_guider.py, step_generator.py: Phase 2 *)
(* A request is an async generator; between two suspensions (a model call  *)
(* or a run of yields) its code runs without interruption, so one action   *)
(* is the code from one suspension to the next.  A handler that only       *)
(* yields and returns changes nothing while suspended and is one action.   *)

ESCAPE_PHRASES ==
    <<<<"U+76F4", "U+63A5", "U+544A", "U+8BC9", "U+6211", "U+7B54", "U+6848">>,
      <<"U+76F4", "U+63A5", "U+7ED9", "U+6211", "U+7B54", "U+6848">>,
      <<"U+6211", "U+4E0D", "U+4F1A">>,
      <<"U+4E0D", "U+4F1A", "U+505A">>,
      <<"U+544A", "U+8BC9", "U+6211", "U+5B8C", "U+6574", "U+7B54", "U+6848">>,
      <<"U+76F4", "U+63A5", "U+89E3", "U+7B54">>,
      <<"U+8DF3", "U+8FC7", "U+5F15", "U+5BFC">>,
      <<"U+8DF3", "U+8FC7">>,
      <<"U+4E0D", "U+60F3", "U+601D", "U+8003", "U+4E86">>,
      <<"U+76F4", "U+63A5", "U+8BF4", "U+7B54", "U+6848">>,
      <<"U+7ED9", "U+6211", "U+7B54", "U+6848">>,
      <<"U+770B", "U+7B54", "U+6848">>,
      <<"U+653E", "U+5F03">>,
      <<"U+592A", "U+96BE", "U+4E86">>,
      <<"U+60F3", "U+4E0D", "U+51FA", "U+6765">>,
      <<"U+4E0D", "U+77E5", "U+9053", "U+600E", "U+4E48", "U+505A">>,
      <<"U+76F4", "U+63A5", "U+7ED9", "U+7B54", "U+6848">>,
      <<"U+5B8C", "U+6574", "U+7B54", "U+6848">>,
      <<"U+5168", "U+90E8", "U+7B54", "U+6848">> >>

check_escape(message) ==
    \E i \in DOMAIN ESCAPE_PHRASES : Contains(lower(strip(message)), ESCAPE_PHRASES[i])

parse_style(message) ==
    IF Contains(lower(strip(message)), <<"1">>)
          \/ Contains(lower(strip(message)), GuidedKeyword)
    THEN GUIDED ELSE DIRECT

MinSteps == 3

\* generate_steps with the steps numbered from 1
generate_steps_numbered_from_one(n) == [i \in 1..n |-> GuidedStep(i)]

\* generate_steps: the steps of a valid logic chain, or what the model
\* extracted cut to the allowed range, or the three default steps
generate_steps(n) == [i \in 1..n |-> GuidedStep(i - 1)]
StepCounts == MinSteps..MaxSteps

\* student_reply_count of guide_step
student_reply_count(conversation_history) ==
    Cardinality({i \in DOMAIN conversation_history : conversation_history[i].role = "user"})

CompleteWord == <<"U+5B8C", "U+6210">>
\* what the evaluation chain can answer; "" is a call that raises
EvaluationResults == { CompleteWord, <<"U+7EE7", "U+7EED">> }
\* what generate_next_question can stream: the model decides
GuidingKinds == {"question", "encouragement"}
\* a model stream ends or raises
StreamResults == {"ok", "401 unauthorized"}

\* what guide_step streams: the summary of the student's answer unless it
\* is skipped, then whatever generate_next_question produced; the reply
\* count reaches the model inside the prompt and no branch of the code
\* reads it
guide_step_stream(conversation_history, skip_summary, kind) ==
    (IF skip_summary THEN <<>> ELSE <<"summary", "blank line">>) \o <<kind>>

\* the chunks of _output_direct_solution and of _output_summary
direct_solution_chunks(session) ==
    <<"direct intro", IF session.solution # NULL THEN "solution" ELSE "solution apology">>
    \o (IF session.knowledge_points # NULL THEN <<"knowledge points">> ELSE <<>>)
    \o (IF session.common_mistakes # NULL THEN <<"common mistakes">> ELSE <<>>)
    \o <<"direct closing">>

summary_chunks(session) ==
    <<"summary intro", "steps recap">>
    \o (IF session.knowledge_points # NULL THEN <<"knowledge points">> ELSE <<>>)
    \o (IF session.common_mistakes # NULL THEN <<"common mistakes">> ELSE <<>>)
    \o <<"summary closing">>

\* the generator of slot t goes on to its next suspension / ends, having
\* streamed its chunks; a streaming request returns nothing else
Suspend(t, turn) ==
    /\ turns' = [turns EXCEPT ![t] = turn]
    /\ ret' = NoCall

Finish(t, turn, result) ==
    /\ turns' = [turns EXCEPT ![t] = IdleTurn]
    /\ ret' = NoCall

Entry(role, content) == [role |-> role, content |-> content]

\* session.step_conversation_history.append(...) followed by the
\* update_session call that writes the same list back
append_history_replaces(store, session_id, entry) ==
    update_session(
        [store EXCEPT ![session_id].step_conversation_history = <<entry>>],
        session_id,
        <<<<"step_conversation_history", <<entry>> >>>>)

append_history(store, session_id, entry) ==
    update_session(
        [store EXCEPT ![session_id].step_conversation_history = Append(@, entry)],
        session_id,
        <<<<"step_conversation_history",
            Append(store[session_id].step_conversation_history, entry)>>>>)

\* the history of the current step of a session is shorter than max
HistoryBelow(session_id, max) ==
    Exists(session_id) => Len(sessions[session_id].step_conversation_history) < max

escape_requested_in_any_state(session, message) == check_escape(message)

\* the first test of process_message_stream: an escape phrase counts in
\* guided mode only
escape_requested(session, message) ==
    session.phase2_state = GUIDING_STEP /\ check_escape(message)

\* a request arrives: process_phase2_message_stream and process_message_stream
\* up to the first suspension of the handler they pick
process_phase2_message_stream(t, session_id, message) ==
    LET turn == [IdleTurn EXCEPT !.session_id = session_id]
        session == sessions[session_id]
    IN
    /\ running = 0
    /\ turns[t].pc = "idle"
    /\ IF ~Exists(session_id)
       THEN /\ Finish(t, [turn EXCEPT !.path = "no_session",
                                       !.streamed = <<"no session">>], "done")
            /\ UNCHANGED sessions
       ELSE IF get_model_raises(session, "deep")
       THEN /\ Finish(t, [turn EXCEPT !.path = "no_model"], AttributeErrorStr)
            /\ UNCHANGED sessions
       ELSE IF escape_requested(session, message)
       THEN \* _handle_escape up to its two opening lines
            /\ Suspend(t, [turn EXCEPT !.pc = "escape_intro", !.path = "escape",
                                        !.streamed = <<"escape intro">>])
            /\ UNCHANGED sessions
       ELSE IF session.phase2_state = AWAITING_MODE
       THEN \* _handle_mode_selection
            LET style == IF session.tutoring_style # NULL THEN session.tutoring_style
                         ELSE parse_style(message)
            IN  /\ sessions' = IF session.tutoring_style # NULL THEN sessions
                                ELSE update_session(sessions, session_id,
                                                    <<<<"tutoring_style", style>>>>)
                /\ IF style = DIRECT
                   THEN Suspend(t, [turn EXCEPT !.pc = "direct_solution", !.path = "direct",
                                        !.streamed = direct_solution_chunks(session)])
                   ELSE Suspend(t, [turn EXCEPT !.pc = "guided_init", !.path = "guided_init",
                                        !.streamed = <<"guided intro">>])
       ELSE IF session.phase2_state = GUIDING_STEP
       THEN \* _handle_guided_response
            IF get_current_step(session) = 0
            THEN /\ Suspend(t, [turn EXCEPT !.pc = "summary", !.path = "summary",
                                        !.streamed = summary_chunks(session)])
                 /\ UNCHANGED sessions
            ELSE /\ sessions' = append_history(sessions, session_id, Entry("user", message))
                 /\ Suspend(t, [turn EXCEPT !.pc = "evaluate", !.path = "guided_response",
                                        !.current_step = get_current_step(session),
                                        !.appended = 1, !.evaluated = TRUE])
       ELSE IF session.phase2_state = COMPLETED
       THEN \* _handle_followup only yields; what the client got is kept
            /\ turns' = [turns EXCEPT ![t] = IdleTurn]
            /\ ret' = Replied("process_phase2_message_stream", session_id, message,
                              "done", <<"followup">>)
            /\ UNCHANGED sessions
       ELSE /\ Finish(t, [turn EXCEPT !.path = "other", !.streamed = <<"general reply">>],
                      "done")
            /\ UNCHANGED sessions
    /\ UNCHANGED <<created, sse_vars, clock, loop_vars>>

\* _handle_escape after its opening lines, into _output_direct_solution
handle_escape_resumes(t) ==
    LET turn == turns[t]
        s == turn.session_id
    IN
    /\ running = 0
    /\ turn.pc = "escape_intro"
    /\ IF ~Exists(s)
       THEN /\ Finish(t, turn, KeyErrorStr)
            /\ UNCHANGED sessions
       ELSE LET marked == [sessions EXCEPT ![s] = mark_all_steps_complete(@)]
            IN  /\ sessions' = update_session(marked, s,
                        << <<"guided_steps", marked[s].guided_steps>>,
                           <<"current_step_index", marked[s].current_step_index>> >>)
                /\ Suspend(t, [turn EXCEPT !.pc = "direct_solution",
                        !.streamed = @ \o direct_solution_chunks(sessions[s])])
    /\ UNCHANGED <<created, sse_vars, clock, loop_vars>>

\* _output_direct_solution after its last line
output_direct_solution_resumes(t) ==
    LET turn == turns[t]
        s == turn.session_id
    IN
    /\ running = 0
    /\ turn.pc = "direct_solution"
    /\ IF ~Exists(s)
       THEN /\ Finish(t, turn, KeyErrorStr)
            /\ UNCHANGED sessions
       ELSE /\ sessions' = update_session(sessions, s, <<<<"phase2_state", COMPLETED>>>>)
            /\ Finish(t, turn, "done")
    /\ UNCHANGED <<created, sse_vars, clock, loop_vars>>

\* _init_guided_mode from its first line to its end: the steps are made
\* and listed, and the first question is streamed (r: how that stream ends)
init_guided_mode_resumes(t, n, r) ==
    LET turn == turns[t]
        s == turn.session_id
        streamed == turn.streamed \o <<"todo list", "opening", "question">>
    IN
    /\ running = 0
    /\ turn.pc = "guided_init"
    /\ IF r # "ok"
       THEN /\ Finish(t, [turn EXCEPT !.streamed = @ \o <<"todo list", "opening">>], r)
            /\ UNCHANGED sessions
       ELSE IF ~Exists(s)
       THEN /\ Finish(t, [turn EXCEPT !.streamed = streamed], KeyErrorStr)
            /\ UNCHANGED sessions
       ELSE /\ sessions' = update_session(sessions, s,
                    << <<"guided_steps", generate_steps(n)>>,
                       <<"current_step_index", 0>>,
                       <<"phase2_state", GUIDING_STEP>>,
                       <<"step_conversation_history",
                         <<Entry("assistant", <<"opening", "question">>)>> >> >>)
            /\ Finish(t, [turn EXCEPT !.streamed = streamed], "done")
    /\ UNCHANGED <<created, sse_vars, clock, loop_vars>>

\* _output_summary after its last line
output_summary_resumes(t) ==
    LET turn == turns[t]
        s == turn.session_id
    IN
    /\ running = 0
    /\ turn.pc = "summary"
    /\ IF ~Exists(s)
       THEN /\ Finish(t, turn, KeyErrorStr)
            /\ UNCHANGED sessions
       ELSE /\ sessions' = update_session(sessions, s, <<<<"phase2_state", COMPLETED>>>>)
            /\ Finish(t, turn, "done")
    /\ UNCHANGED <<created, sse_vars, clock, loop_vars>>


is_complete_when_raised(call) == call.raised \/ Contains(call.result, CompleteWord)

\* evaluate_completion's verdict on what the evaluation chain did
is_complete(call) == ~call.raised /\ Contains(call.result, CompleteWord)

EvaluationCalls ==
    {[raised |-> FALSE, result |-> x] : x \in EvaluationResults}
        \cup {[raised |-> TRUE, result |-> <<>>]}

\* _handle_guided_response when evaluate_completion returns: on to the
\* summary of the finished step, or into guide_step, which counts the
\* student's replies before it streams
evaluate_completion_returns(t, call) ==
    LET turn == turns[t]
        s == turn.session_id
    IN
    /\ running = 0
    /\ turn.pc = "evaluate"
    /\ IF is_complete(call)
       THEN Suspend(t, [turn EXCEPT !.pc = "summarize"])
       ELSE Suspend(t, [turn EXCEPT !.pc = "guide", !.current_step = 0,
                !.failed = call.raised,
                !.reply_count = IF Exists(s)
                                THEN student_reply_count(sessions[s].step_conversation_history)
                                ELSE 0])
    /\ UNCHANGED <<store_vars, sse_vars, clock, loop_vars>>

\* the summarize_and_explain stream of a finished step ends: the summary is
\* appended and saved, and the generator yields the blank line before
\* _complete_step
summarize_and_explain_returns(t, r) ==
    LET turn == turns[t]
        s == turn.session_id
    IN
    /\ running = 0
    /\ turn.pc = "summarize"
    /\ IF r # "ok"
       THEN /\ Finish(t, turn, r)
            /\ UNCHANGED sessions
       ELSE IF ~Exists(s)
       THEN /\ Finish(t, [turn EXCEPT !.streamed = Append(@, "summary")], KeyErrorStr)
            /\ UNCHANGED sessions
       ELSE /\ sessions' = append_history(sessions, s, Entry("assistant", <<"summary">>))
            /\ Suspend(t, [turn EXCEPT !.pc = "summary_saved", !.appended = @ + 1,
                                        !.streamed = Append(@, "summary")])
    /\ UNCHANGED <<created, sse_vars, clock, loop_vars>>

IndexErrorStr == "list index out of range"

\* _complete_step up to its progress lines
complete_step(t) ==
    LET turn == turns[t]
        s == turn.session_id
    IN
    /\ running = 0
    /\ turn.pc = "summary_saved"
    /\ Exists(s)
    /\ IF sessions[s].current_step_index >= Len(sessions[s].guided_steps)
       THEN /\ Finish(t, turn, IndexErrorStr)
            /\ UNCHANGED sessions
       ELSE /\ sessions' = [sessions EXCEPT ![s] = mark_current_step_complete(@)]
            /\ Suspend(t, [turn EXCEPT !.pc = "step_feedback", !.current_step = 0,
                                        !.all_done = all_done_after(sessions[s]),
                                        !.streamed = Append(@, "step feedback")])
    /\ UNCHANGED <<created, sse_vars, clock, loop_vars>>

\* _complete_step after its progress lines: the closing summary, or the
\* opening of the next step
complete_step_resumes(t) ==
    LET turn == turns[t]
        s == turn.session_id
    IN
    /\ running = 0
    /\ turn.pc = "step_feedback"
    /\ Exists(s)
    /\ IF turn.all_done
       THEN Suspend(t, [turn EXCEPT !.pc = "summary",
                                    !.streamed = @ \o summary_chunks(sessions[s])])
       ELSE IF sessions[s].current_step_index >= Len(sessions[s].guided_steps)
       THEN Finish(t, turn, IndexErrorStr)
       ELSE Suspend(t, [turn EXCEPT !.pc = "next_question",
                                    !.streamed = Append(@, "opening")])
    /\ UNCHANGED <<store_vars, sse_vars, clock, loop_vars>>

\* the first question of the next step has been streamed: the step's
\* history starts over
next_question_returns(t, r) ==
    LET turn == turns[t]
        s == turn.session_id
    IN
    /\ running = 0
    /\ turn.pc = "next_question"
    /\ IF r # "ok"
       THEN /\ Finish(t, turn, r)
            /\ UNCHANGED sessions
       ELSE IF ~Exists(s)
       THEN /\ Finish(t, [turn EXCEPT !.streamed = Append(@, "question")], KeyErrorStr)
            /\ UNCHANGED sessions
       ELSE /\ sessions' = update_session(sessions, s,
                    << <<"guided_steps", sessions[s].guided_steps>>,
                       <<"current_step_index", sessions[s].current_step_index>>,
                       <<"step_conversation_history",
                         <<Entry("assistant", <<"opening", "question">>)>> >> >>)
            /\ Finish(t, [turn EXCEPT !.streamed = Append(@, "question")], "done")
    /\ UNCHANGED <<created, sse_vars, clock, loop_vars>>

\* guide_step of an unfinished step has streamed its summary and then what
\* generate_next_question produced (kind): the reply is appended and saved
guide_step_returns(t, r, kind) ==
    LET turn == turns[t]
        s == turn.session_id
    IN
    /\ running = 0
    /\ turn.pc = "guide"
    /\ IF r # "ok"
       THEN /\ Finish(t, turn, r)
            /\ UNCHANGED sessions
       ELSE IF ~Exists(s)
       THEN /\ Finish(t, [turn EXCEPT !.streamed = @ \o
                        guide_step_stream(sessions[s].step_conversation_history, FALSE, kind)],
                      KeyErrorStr)
            /\ UNCHANGED sessions
       ELSE /\ sessions' = append_history(sessions, s, Entry("assistant", <<"summary", "reply">>))
            /\ Finish(t, [turn EXCEPT !.appended = @ + 1, !.streamed = @ \o
                        guide_step_stream(sessions[s].step_conversation_history, FALSE, kind)],
                      "done")
    /\ UNCHANGED <<created, sse_vars, clock, loop_vars>>

\* the client goes away while the generator is suspended: it is closed
\* there and nothing after that point runs
phase2_stream_closed(t) ==
    /\ running = 0
    /\ turns[t].pc # "idle"
    /\ Finish(t, turns[t], "closed")
    /\ UNCHANGED <<store_vars, sse_vars, clock, loop_vars>>

\* a session the pipeline has finished with
AnalysedSession(session_id) ==
    [Session(session_id) EXCEPT
        !.image_data = "image",
        !.tasks = [t \in TaskNames |->
                      [status |-> COMPLETED, result |-> ResultOf(t), error |-> NULL]],
        !.question_text = "question text",
        !.exam_points = "exam points",
        !.solution = "solution",
        !.knowledge_points = "knowledge",
        !.common_mistakes = "mistakes",
        !.logic_chain_steps = "logic",
        !.thinking_pattern = "pattern"]

\* Phase 2 on its own: one session, fresh or analysed, and its requests
InitTutor ==
    /\ sessions \in {[s \in SessionIds |-> Session(s)],
                      [s \in SessionIds |-> AnalysedSession(s)]}
    /\ created = SessionIds
    /\ subscribers = <<>>
    /\ pending_events = <<>>
    /\ queues = <<>>
    /\ clock = 0
    /\ coros = [p \in Uploads |-> IdleCoro]
    /\ running = 0
    /\ published = [s \in PublisherIds |-> <<>>]
    /\ missed = [s \in PublisherIds |-> 0]
    /\ turns = [t \in TurnIds |-> IdleTurn]
    /\ ret = NoCall

\* what a client types in Phase 2: a choice of style, an answer, an escape
TutorMessages == { <<"1">>, <<"2", " ">>, <<"U+770B", "U+7B54", "U+6848">> }

TutorNext ==
    \/ \E t \in TurnIds, s \in PublisherIds, m \in TutorMessages :
            HistoryBelow(s, MaxHistory) /\ process_phase2_message_stream(t, s, m)
    \/ \E t \in TurnIds : handle_escape_resumes(t)
    \/ \E t \in TurnIds : output_direct_solution_resumes(t)
    \/ \E t \in TurnIds, n \in StepCounts, r \in StreamResults :
            init_guided_mode_resumes(t, n, r)
    \/ \E t \in TurnIds : output_summary_resumes(t)
    \/ \E t \in TurnIds, call \in EvaluationCalls : evaluate_completion_returns(t, call)
    \/ \E t \in TurnIds, r \in StreamResults : summarize_and_explain_returns(t, r)
    \/ \E t \in TurnIds : complete_step(t)
    \/ \E t \in TurnIds : complete_step_resumes(t)
    \/ \E t \in TurnIds, r \in StreamResults : next_question_returns(t, r)
    \/ \E t \in TurnIds, r \in StreamResults, kind \in GuidingKinds :
            guide_step_returns(t, r, kind)
    \/ \E t \in TurnIds : phase2_stream_closed(t)

SpecTutor == InitTutor /\ [][TutorNext]_vars

\* Phase 2 with one request at a time, each one processed to its end (or to
\* the point where the client goes away) before the next is sent
MaxTurnHistory == 8

TurnNext ==
    \/ \E s \in SessionIds, m \in TutorMessages :
            HistoryBelow(s, MaxTurnHistory) /\ process_phase2_message_stream(1, s, m)
    \/ handle_escape_resumes(1)
    \/ output_direct_solution_resumes(1)
    \/ \E n \in StepCounts, r \in StreamResults : init_guided_mode_resumes(1, n, r)
    \/ output_summary_resumes(1)
    \/ \E call \in EvaluationCalls : evaluate_completion_returns(1, call)
    \/ \E r \in StreamResults : summarize_and_explain_returns(1, r)
    \/ complete_step(1)
    \/ complete_step_resumes(1)
    \/ \E r \in StreamResults : next_question_returns(1, r)
    \/ \E r \in StreamResults, kind \in GuidingKinds : guide_step_returns(1, r, kind)
    \/ phase2_stream_closed(1)

SpecTurn == InitTutor /\ [][TurnNext]_vars

\* one client that uses its session as the endpoints are meant to be used:
\* one request at a time, Phase-2 messages only once the chat has reached
\* TUTORING, a new image when it wants to work on a new question
SessionMessages == { <<"1">>, <<"2", " ">> }

SessionNext ==
    \/ \E s \in SessionIds, m \in SessionMessages :
            turns[1].pc = "idle" /\ send_message(s, m)
    \/ \E s \in SessionIds, p \in Uploads :
            turns[1].pc = "idle" /\ upload_image(s, p)
    \/ \E s \in SessionIds, m \in TutorMessages :
            /\ sessions[s].conversation_state = TUTORING
            /\ HistoryBelow(s, MaxHistory)
            /\ process_phase2_message_stream(1, s, m)
    \/ handle_escape_resumes(1)
    \/ output_direct_solution_resumes(1)
    \/ \E n \in StepCounts, r \in StreamResults : init_guided_mode_resumes(1, n, r)
    \/ output_summary_resumes(1)
    \/ \E call \in EvaluationCalls : evaluate_completion_returns(1, call)
    \/ \E r \in StreamResults : summarize_and_explain_returns(1, r)
    \/ complete_step(1)
    \/ complete_step_resumes(1)
    \/ \E r \in StreamResults : next_question_returns(1, r)
    \/ \E r \in StreamResults, kind \in GuidingKinds : guide_step_returns(1, r, kind)
    \/ phase2_stream_closed(1)

SpecSession == InitTutor /\ [][SessionNext]_vars

----------------------------------------------------------------------------
(* StepGuider.guide_step on its own, called with any conversation history *)

HistoryEntries == {Entry("user", <<"1">>), Entry("assistant", <<"summary", "reply">>)}
Histories == UNION {[1..n -> HistoryEntries] : n \in 0..(MaxHistory + 2)}

GuideStep(conversation_history, skip_summary, kind) ==
    /\ ret' = [op |-> "guide_step",
               conversation_history |-> conversation_history,
               skip_summary |-> skip_summary,
               student_reply_count |-> student_reply_count(conversation_history),
               response |-> guide_step_stream(conversation_history, skip_summary, kind)]
    /\ UNCHANGED <<store_vars, sse_vars, clock, loop_vars, turns>>

GuideNext ==
    \E h \in Histories, skip \in BOOLEAN, kind \in GuidingKinds : GuideStep(h, skip, kind)

SpecGuide == Init /\ [][GuideNext]_vars

----------------------------------------------------------------------------
(* workflow/step_generator.py: StepGenerator on its own.  logic_chain_steps *)
(* is None or a list of strings, of which only the length matters; the     *)
(* model call raises or returns text, of which the blocks between the      *)
(* separators matter: an empty block, a block without title and            *)
(* description, and a block that has one of them                           *)

MaxGuidedSteps == 7

_convert_logic_steps(steps) == [i \in 1..Len(steps) |-> GuidedStep(i - 1)]

\* a block that has a title or a description becomes a step whose index is
\* the number of steps collected before it
RECURSIVE _parse_steps_output(_, _)
_parse_steps_output(output, steps) ==
    IF output = <<>> THEN steps
    ELSE _parse_steps_output(Tail(output),
            IF Head(output) = "step" THEN Append(steps, GuidedStep(Len(steps))) ELSE steps)

_create_default_steps == <<GuidedStep(0), GuidedStep(1), GuidedStep(2)>>

_extract_from_solution_untruncated(output) ==
    IF output.raised THEN _create_default_steps
    ELSE LET steps == _parse_steps_output(output.blocks, <<>>)
         IN  IF Len(steps) < MinSteps THEN _create_default_steps
             ELSE steps

_extract_from_solution(output) ==
    IF output.raised THEN _create_default_steps
    ELSE LET steps == _parse_steps_output(output.blocks, <<>>)
         IN  IF Len(steps) < MinSteps THEN _create_default_steps
             ELSE IF Len(steps) > MaxGuidedSteps THEN SubSeq(steps, 1, MaxGuidedSteps)
             ELSE steps

StepGenerator_generate_steps(logic_chain_steps, output) ==
    IF /\ ~logic_chain_steps.none
       /\ logic_chain_steps.list # <<>>
       /\ MinSteps <= Len(logic_chain_steps.list)
       /\ Len(logic_chain_steps.list) <= MaxGuidedSteps
    THEN [path |-> "logic_chain", steps |-> _convert_logic_steps(logic_chain_steps.list)]
    ELSE [path |-> "model", steps |-> _extract_from_solution(output)]

Blocks == {"", "text", "step"}
Outputs ==
    {[raised |-> TRUE, blocks |-> <<>>]} \cup
    {[raised |-> FALSE, blocks |-> b] : b \in UNION {[1..n -> Blocks] : n \in 1..MaxBlocks}}
LogicChains ==
    {[none |-> TRUE, list |-> <<>>]} \cup
    {[none |-> FALSE, list |-> [i \in 1..n |-> "text"]] : n \in 0..MaxLogicSteps}

\* one call of generate_steps: the logic chain of the session and what the
\* model call will do are fixed before the call
InitSteps ==
    /\ sessions = <<>>
    /\ created = {}
    /\ subscribers = <<>>
    /\ pending_events = <<>>
    /\ queues = <<>>
    /\ clock = 0
    /\ coros = [p \in Uploads |-> IdleCoro]
    /\ running = 0
    /\ published = [s \in PublisherIds |-> <<>>]
    /\ missed = [s \in PublisherIds |-> 0]
    /\ turns = [t \in TurnIds |-> IdleTurn]
    /\ \E l \in LogicChains, o \in Outputs :
          ret = [op |-> "call", logic_chain_steps |-> l, output |-> o,
                 result |-> [path |-> NULL, steps |-> <<>>]]

GenerateSteps ==
    /\ ret.op = "call"
    /\ ret' = [ret EXCEPT !.op = "generate_steps",
                          !.result = StepGenerator_generate_steps(ret.logic_chain_steps,
                                                                  ret.output)]
    /\ UNCHANGED <<store_vars, sse_vars, clock, loop_vars, turns>>

StepsNext == GenerateSteps

SpecSteps == InitSteps /\ [][StepsNext]_vars

----------------------------------------------------------------------------
(* session/models.py on its own: the methods of Session, called on a       *)
(* session in any state of its tasks or of its guided steps                *)

TaskIn(status, task_name) ==
    [status |-> status,
     result |-> IF status = COMPLETED THEN ResultOf(task_name) ELSE NULL,
     error |-> IF status = FAILED THEN KeyErrorStr ELSE NULL]

StepLists ==
    UNION {{[i \in 1..n |-> [GuidedStep(i - 1) EXCEPT !.completed = done[i]]] :
                done \in [1..n -> BOOLEAN]} : n \in 0..MaxSteps}

StepHistories ==
    {<<>>,
     <<Entry("assistant", <<"opening", "question">>)>>,
     <<Entry("assistant", <<"opening", "question">>), Entry("user", <<"1">>)>>}

ModelSessions ==
    {[Session("s1") EXCEPT !.tasks = [t \in TaskNames |-> TaskIn(status[t], t)]] :
        status \in [TaskNames -> TaskStatus]}
    \cup
    {[Session("s1") EXCEPT !.conversation_state = TUTORING,
                          !.tutoring_style = GUIDED,
                          !.phase2_state = x[1],
                          !.guided_steps = x[2],
                          !.current_step_index = x[3],
                          !.step_conversation_history = x[4]] :
        x \in {y \in Phase2State \X StepLists \X (0..MaxSteps) \X StepHistories :
                    y[3] <= Len(y[2])}}

InitModels ==
    /\ \E session \in ModelSessions : sessions = [s \in {"s1"} |-> session]
    /\ created = {"s1"}
    /\ subscribers = <<>>
    /\ pending_events = <<>>
    /\ queues = <<>>
    /\ clock = 0
    /\ coros = [p \in Uploads |-> IdleCoro]
    /\ running = 0
    /\ published = [s \in PublisherIds |-> <<>>]
    /\ missed = [s \in PublisherIds |-> 0]
    /\ turns = [t \in TurnIds |-> IdleTurn]
    /\ ret = NoCall

MarkCurrentStepComplete(session_id) ==
    /\ ret' = [op |-> "mark_current_step_complete",
               before |-> sessions[session_id],
               result |-> all_done_after(sessions[session_id])]
    /\ sessions' = [sessions EXCEPT ![session_id] = mark_current_step_complete(@)]
    /\ UNCHANGED <<created, sse_vars, clock, loop_vars, turns>>

IsAllTasksCompleted(session_id) ==
    /\ ret' = [op |-> "is_all_tasks_completed",
               result |-> is_all_tasks_completed(sessions[session_id])]
    /\ UNCHANGED <<store_vars, sse_vars, clock, loop_vars, turns>>

ToDict(session_id) ==
    /\ ret' = [op |-> "to_dict", result |-> to_dict(sessions[session_id])]
    /\ UNCHANGED <<store_vars, sse_vars, clock, loop_vars, turns>>

ModelsNext ==
    \/ MarkCurrentStepComplete("s1")
    \/ IsAllTasksCompleted("s1")
    \/ ToDict("s1")

SpecModels == InitModels /\ [][ModelsNext]_vars

----------------------------------------------------------------------------
(* Properties *)

Status(s, t) == sessions[s].tasks[t].status

Terminal == {COMPLETED, FAILED}

Started(p) == coros[p].pc # "idle"
Finished(p) == coros[p].pc = "dead"

\* the events of one kind published for a task of session s
EventsOf(s, type, task) ==
    {i \in DOMAIN published[s] :
        published[s][i].type = type /\ published[s][i].task = task}

\* a step that calls publish for session s, and the event it made
Publishes(s) == Len(published'[s]) = Len(published[s]) + 1
NewEvent(s) == published'[s][Len(published'[s])]

\* C1: every task's status only moves forward PENDING -> RUNNING ->
\* (COMPLETED | FAILED); a task that is COMPLETED or FAILED never changes
\* status again.
C1_StatusMonotone ==
    [][\A s \in DOMAIN sessions \cap DOMAIN sessions' : \A t \in TaskNames :
          LET old == sessions[s].tasks[t].status
              new == sessions'[s].tasks[t].status
          IN  \/ new = old
              \/ old = PENDING /\ new = RUNNING
              \/ old = RUNNING /\ new \in Terminal]_vars

\* C2: exam_points and deep_solution leave PENDING only once
\* vision_extraction is COMPLETED, and knowledge_points and logic_chain
\* leave PENDING only once deep_solution is COMPLETED.
C2_StageOrder ==
    [][\A s \in DOMAIN sessions \cap DOMAIN sessions' :
          /\ \A t \in {"exam_points", "deep_solution"} :
                (Status(s, t) = PENDING /\ sessions'[s].tasks[t].status # PENDING)
                    => /\ Status(s, "vision_extraction") = COMPLETED
                       /\ sessions'[s].tasks["vision_extraction"].status = COMPLETED
          /\ \A t \in {"knowledge_points", "logic_chain"} :
                (Status(s, t) = PENDING /\ sessions'[s].tasks[t].status # PENDING)
                    => /\ Status(s, "deep_solution") = COMPLETED
                       /\ sessions'[s].tasks["deep_solution"].status = COMPLETED]_vars

C2_Witness ==
    \E s \in DOMAIN sessions :
        /\ Status(s, "vision_extraction") = COMPLETED
        /\ Status(s, "deep_solution") = COMPLETED
        /\ Status(s, "exam_points") = COMPLETED
        /\ Status(s, "knowledge_points") = RUNNING
        /\ Status(s, "logic_chain") = RUNNING

\* C3: a failure in one parallel branch does not fail its sibling: when the
\* model call of exactly one task of a pair raised, the other task ends
\* COMPLETED, for exam_points / deep_solution and for knowledge_points /
\* logic_chain.
SiblingCompleted(p, a, b) ==
    (coros[p].results[a] \in ModelExceptions /\ coros[p].results[b] = "ok")
        => Status(coros[p].session_id, b) = COMPLETED

C3_SiblingIndependent ==
    \A p \in Uploads :
        (Finished(p) /\ Exists(coros[p].session_id)) =>
            /\ SiblingCompleted(p, "exam_points", "deep_solution")
            /\ SiblingCompleted(p, "deep_solution", "exam_points")
            /\ SiblingCompleted(p, "knowledge_points", "logic_chain")
            /\ SiblingCompleted(p, "logic_chain", "knowledge_points")

\* C4: a failed gating stage keeps its dependents unscheduled: while
\* vision_extraction is FAILED the four later tasks are PENDING, and while
\* deep_solution is FAILED knowledge_points and logic_chain are PENDING.
C4_GateKeepsPending ==
    \A s \in DOMAIN sessions :
        /\ Status(s, "vision_extraction") = FAILED =>
              \A t \in TaskNames \ {"vision_extraction"} : Status(s, t) = PENDING
        /\ Status(s, "deep_solution") = FAILED =>
              \A t \in {"knowledge_points", "logic_chain"} : Status(s, t) = PENDING

\* C5: once the final pair has settled (knowledge_points and logic_chain
\* both COMPLETED or FAILED, the coroutine that settled them has ended) and
\* is_all_tasks_completed() holds, a session_complete event has been
\* published for the session.
C5_SessionCompletePublished ==
    \A s \in DOMAIN sessions :
        ( /\ \A p \in Uploads : coros[p].session_id = s => Finished(p)
          /\ Status(s, "knowledge_points") \in Terminal
          /\ Status(s, "logic_chain") \in Terminal
          /\ is_all_tasks_completed(sessions[s]) )
        => EventsOf(s, "session_complete", NULL) # {}

\* C6: when the model call of a task raised a timeout, the task is FAILED
\* with an error message at the moment its task_failed event is published,
\* and the run that made the call publishes that event exactly once.
TimedOut(p, t) == coros[p].results[t] = ""

FailedEventsBy(p, t) ==
    {i \in EventsOf(coros[p].session_id, "task_failed", t) :
        published[coros[p].session_id][i].by = p}

C6_TimeoutFailsOnce ==
    /\ [](\A p \in Uploads : \A t \in TaskNames :
            (TimedOut(p, t) /\ Exists(coros[p].session_id)) =>
                /\ Cardinality(FailedEventsBy(p, t)) <= 1
                /\ Finished(p) => Cardinality(FailedEventsBy(p, t)) = 1)
    /\ [][\A p \in Uploads : \A t \in TaskNames :
            LET s == coros[p].session_id
            IN  ( /\ TimedOut(p, t)
                  /\ s \in PublisherIds
                  /\ Publishes(s)
                  /\ NewEvent(s).type = "task_failed"
                  /\ NewEvent(s).task = t
                  /\ NewEvent(s).by = p )
                => /\ sessions'[s].tasks[t].status = FAILED
                   /\ sessions'[s].tasks[t].error \notin {NULL, ""}]_vars

C6_Witness ==
    \E p \in Uploads :
        /\ Finished(p)
        /\ Exists(coros[p].session_id)
        /\ TimedOut(p, "deep_solution")
        /\ Cardinality(FailedEventsBy(p, "deep_solution")) = 1
        /\ Status(coros[p].session_id, "deep_solution") = FAILED

\* C7: if every model call succeeds and the session is not deleted, the
\* pipeline started by upload_image ends with all five tasks COMPLETED and
\* question_text and solution set, so that get_status reports
\* has_question and has_solution.
AllCallsSucceeded(p) ==
    \A t \in TaskNames : coros[p].results[t] \in {"ok", NotCalled}

C7_PipelineCompletes ==
    \A p \in Uploads :
        ( /\ Finished(p)
          /\ Exists(coros[p].session_id)
          /\ \A q \in Uploads : Started(q) => (Finished(q) /\ AllCallsSucceeded(q)) )
        => LET status == get_status(sessions[coros[p].session_id])
           IN  /\ \A t \in TaskNames : status.tasks[t] = COMPLETED
               /\ status.has_question
               /\ status.has_solution

----------------------------------------------------------------------------
(* Properties of the publisher *)

Pending(s) == IF s \in DOMAIN pending_events THEN pending_events[s] ELSE <<>>

Subscribed(q) ==
    /\ queues[q].session_id \in DOMAIN subscribers
    /\ q \in subscribers[queues[q].session_id]

Min(a, b) == IF a < b THEN a ELSE b

\* C8: a subscriber that connects after N <= cap events were published
\* with nobody connected receives exactly those N events first, in
\* non-decreasing timestamp order, then the events published after it
\* subscribed, without duplicates and without drops.
C8_BacklogThenLive ==
    \A q \in DOMAIN queues :
        LET s == queues[q].session_id
            got == queues[q].items
            N == queues[q].backlog
            first == queues[q].first
        IN  N <= max_pending_events =>
               /\ Len(got) >= N
               /\ first + Len(got) - 1 <= Len(published[s])
               /\ \A i \in 1..Len(got) : got[i] = published[s][first + i - 1]
               /\ \A i, j \in 1..N : i < j => got[i].timestamp <= got[j].timestamp
               /\ Subscribed(q) => first + Len(got) - 1 = Len(published[s])

C8_Witness ==
    \E q \in DOMAIN queues :
        /\ queues[q].backlog = max_pending_events
        /\ Len(queues[q].items) > queues[q].backlog
        /\ queues[q].items[1].timestamp < queues[q].items[2].timestamp

\* C9: with no subscriber, the pending buffer of a session holds the most
\* recently published events, all of them up to cap and exactly cap of them
\* beyond (oldest dropped first); it never holds more than cap events.
C9_PendingKeepsNewest ==
    \A s \in PublisherIds :
        LET kept == Min(missed[s], max_pending_events)
            n == Len(published[s])
        IN  /\ Len(Pending(s)) <= max_pending_events
            /\ kept <= n
            /\ Pending(s) = SubSeq(published[s], n - kept + 1, n)

C9_Witness ==
    \E s \in PublisherIds :
        /\ missed[s] > max_pending_events
        /\ Len(Pending(s)) = max_pending_events

\* C10: with at least one subscriber registered, publish puts the event on
\* the queue of every registered subscriber of the session and buffers
\* nothing, and every queue holds its events in the order of the publish
\* calls.
C10_LiveDelivery ==
    /\ [](\A q \in DOMAIN queues : \A i, j \in 1..Len(queues[q].items) :
            i < j => queues[q].items[i].id < queues[q].items[j].id)
    /\ [][\A s \in PublisherIds :
            (Publishes(s) /\ has_subscribers(s)) =>
                /\ \A q \in subscribers[s] :
                      queues'[q].items = Append(queues[q].items, NewEvent(s))
                /\ \A q \in DOMAIN queues \ subscribers[s] : queues'[q] = queues[q]
                /\ pending_events' = pending_events]_vars

C10_Witness ==
    \E q1, q2 \in DOMAIN queues :
        /\ q1 # q2
        /\ queues[q1].session_id = queues[q2].session_id
        /\ Subscribed(q1) /\ Subscribed(q2)
        /\ queues[q1].backlog = 0 /\ queues[q2].backlog = 0
        /\ Len(queues[q1].items) = 2 /\ Len(queues[q2].items) = 1

\* C11: once the client of an event stream has gone away, however the
\* stream ended, its queue is no longer registered with the publisher (so
\* later events of the session are kept as pending for the next subscriber)
C11_DisconnectReleases ==
    \A q \in DOMAIN queues : ~queues[q].open => ~Subscribed(q)

\* C20: an update_session call that fails, with KeyError for an absent id or
\* with AttributeError for a keyword Session does not have, leaves every
\* session as it was: none of the call's assignments is applied
C20_FailedUpdateChangesNothing ==
    [][(ret'.op = "update_session" /\ ret'.result # "ok") => sessions' = sessions]_vars

\* a send_message call that found its session
SentTo(s) ==
    /\ ret'.op = "send_message" /\ ret'.result = "200" /\ ret'.session_id = s
    /\ s \in DOMAIN sessions /\ s \in DOMAIN sessions'

IsPrefix(a, b) == Len(a) <= Len(b) /\ SubSeq(b, 1, Len(a)) = a

\* C18: send_message moves the Phase-1 chat as the table says: INITIAL ->
\* thinking prompt, AWAITING_THINKING; AWAITING_THINKING -> the message is
\* stored as user_thinking, style prompt, AWAITING_STYLE; AWAITING_STYLE ->
\* tutoring_style is GUIDED when the message contains "1" or the guided
\* keyword and DIRECT otherwise, TUTORING, empty reply; TUTORING -> empty
\* reply and nothing but the message log changes
C18_ChatTransitions ==
    [][\A s \in StoreIds : SentTo(s) =>
        LET old == sessions[s]
            new == sessions'[s]
            m == ret'.message
        IN  /\ old.conversation_state = INITIAL =>
                /\ ret'.response = ThinkingPrompt
                /\ new.conversation_state = AWAITING_THINKING
            /\ old.conversation_state = AWAITING_THINKING =>
                /\ new.user_thinking = m
                /\ ret'.response = StylePrompt
                /\ new.conversation_state = AWAITING_STYLE
            /\ old.conversation_state = AWAITING_STYLE =>
                /\ new.tutoring_style =
                      IF Contains(m, <<"1">>) \/ Contains(m, GuidedKeyword)
                      THEN GUIDED ELSE DIRECT
                /\ new.conversation_state = TUTORING
                /\ ret'.response = <<>>
            /\ old.conversation_state = TUTORING =>
                /\ ret'.response = <<>>
                /\ [new EXCEPT !.messages = old.messages] = old
    ]_vars

\* a session that went through all four states, choosing by the keyword
C18_Witness ==
    \E s \in DOMAIN sessions :
        /\ ret.op = "send_message" /\ ret.result = "200" /\ ret.session_id = s
        /\ sessions[s].conversation_state = TUTORING
        /\ sessions[s].tutoring_style = GUIDED
        /\ sessions[s].user_thinking = <<"2", " ">>
        /\ Len(sessions[s].messages) = 8
        /\ sessions[s].messages[5].content = GuidedKeyword
        /\ sessions[s].messages[2].content = ThinkingPrompt
        /\ sessions[s].messages[4].content = StylePrompt

\* C19: messages only ever grows at its end, and a send_message call on an
\* existing session appends exactly the user turn and then the reply
C19_MessagesAppendOnly ==
    [][\A s \in StoreIds : (s \in DOMAIN sessions /\ s \in DOMAIN sessions') =>
        /\ IsPrefix(sessions[s].messages, sessions'[s].messages)
        /\ SentTo(s) =>
              sessions'[s].messages = sessions[s].messages \o
                  << [role |-> "user", content |-> ret'.message],
                     [role |-> "assistant", content |-> ret'.response] >>
    ]_vars

\* four calls, one in each state, left eight entries with alternating roles
C19_Witness ==
    \E s \in DOMAIN sessions :
        /\ Len(sessions[s].messages) = 8
        /\ \A i \in 1..8 :
              sessions[s].messages[i].role = IF i % 2 = 1 THEN "user" ELSE "assistant"
        /\ sessions[s].messages[7].content = <<"1">>
        /\ sessions[s].messages[8].content = <<>>

InFlight(t) == turns[t].pc # "idle"

AllStepsCompleted(session) ==
    \A i \in DOMAIN session.guided_steps : session.guided_steps[i].completed

\* C12: no two Phase-2 requests of one session are in flight at the same
\* time
C12_OneTurnInFlight ==
    \A t1, t2 \in TurnIds :
        (t1 # t2 /\ InFlight(t1) /\ InFlight(t2))
            => turns[t1].session_id # turns[t2].session_id

\* C13: current_step_index is between 0 and len(guided_steps), and equals
\* the length only when every step is completed
C13_StepIndexInRange ==
    \A s \in DOMAIN sessions :
        /\ 0 <= sessions[s].current_step_index
        /\ sessions[s].current_step_index <= Len(sessions[s].guided_steps)
        /\ sessions[s].current_step_index = Len(sessions[s].guided_steps)
              => AllStepsCompleted(sessions[s])

\* the last of three steps was completed by answering it
C13_Witness ==
    \E s \in DOMAIN sessions :
        /\ Len(sessions[s].guided_steps) = MinSteps
        /\ sessions[s].current_step_index = MinSteps
        /\ \E t \in TurnIds : turns[t].pc = "summary" /\ turns[t].all_done

\* C14: an escape request that runs to its end leaves every step
\* completed, current_step_index at len(guided_steps) and phase2_state
\* COMPLETED, has streamed the solution dump, and neither appended to
\* step_conversation_history nor called the evaluator
C14_EscapeCompletes ==
    [][\A t \in TurnIds :
        LET s == turns[t].session_id IN
        (/\ turns[t].path = "escape" /\ turns[t].pc = "direct_solution"
         /\ turns'[t].pc = "idle"
         /\ sessions'[s].phase2_state = COMPLETED)
        => /\ AllStepsCompleted(sessions'[s])
           /\ sessions'[s].current_step_index = Len(sessions'[s].guided_steps)
           /\ \E i \in DOMAIN turns[t].streamed :
                 turns[t].streamed[i] \in {"solution", "solution apology"}
           /\ turns[t].appended = 0
           /\ ~turns[t].evaluated
    ]_vars

\* C17: while conversation_state is INITIAL, AWAITING_THINKING or
\* AWAITING_STYLE, no step of a Phase-2 request changes phase2_state,
\* tutoring_style, guided_steps, current_step_index or
\* step_conversation_history
C17_Phase2OnlyWhenTutoring ==
    [][\A s \in DOMAIN sessions :
        (/\ sessions[s].conversation_state \in {INITIAL, AWAITING_THINKING, AWAITING_STYLE}
         /\ turns' # turns)
        => /\ sessions'[s].phase2_state = sessions[s].phase2_state
           /\ sessions'[s].tutoring_style = sessions[s].tutoring_style
           /\ sessions'[s].guided_steps = sessions[s].guided_steps
           /\ sessions'[s].current_step_index = sessions[s].current_step_index
           /\ sessions'[s].step_conversation_history = sessions[s].step_conversation_history
    ]_vars

ReplyCap == 3

\* C15: what guide_step generates for an unfinished step is a new question
\* while the number of user messages in the step's history is below 3, and
\* an encouragement to move on from 3 on
C15_ReplyCapSwitch ==
    (ret.op = "guide_step" /\ ~ret.skip_summary) =>
        /\ ret.student_reply_count =
              Cardinality({i \in DOMAIN ret.conversation_history :
                              ret.conversation_history[i].role = "user"})
        /\ ret.response[Len(ret.response)] =
              IF ret.student_reply_count >= ReplyCap THEN "encouragement" ELSE "question"

\* C16: a session whose tutoring_style is DIRECT is never in GUIDING_STEP
\* and never holds guided steps; a session whose tutoring_style is GUIDED
\* is COMPLETED only after it was in GUIDING_STEP, which leaves its steps
\* behind; and no step of a Phase-2 request changes a tutoring_style that
\* is set
C16_OnePathPerSession ==
    [][\A s \in DOMAIN sessions' :
        /\ sessions'[s].tutoring_style = DIRECT =>
              /\ sessions'[s].phase2_state # GUIDING_STEP
              /\ sessions'[s].guided_steps = <<>>
        /\ (sessions'[s].tutoring_style = GUIDED /\ sessions'[s].phase2_state = COMPLETED)
              => sessions'[s].guided_steps # <<>>
        /\ (s \in DOMAIN sessions /\ turns' # turns /\ sessions[s].tutoring_style # NULL)
              => sessions'[s].tutoring_style = sessions[s].tutoring_style
    ]_vars

StepBlocks(output) ==
    Cardinality({i \in DOMAIN output.blocks : output.blocks[i] = "step"})

C23_MarkCompleteAtEnd ==
    (/\ ret.op = "mark_current_step_complete"
     /\ ret.before.current_step_index = Len(ret.before.guided_steps))
        => /\ ret.result = TRUE
           /\ sessions["s1"] = ret.before

\* the call was made on a worked-through list of steps, one of them
\* left not completed
C23_Witness ==
    /\ ret.op = "mark_current_step_complete"
    /\ Len(ret.before.guided_steps) = MaxSteps
    /\ ret.before.current_step_index = MaxSteps
    /\ \E i \in DOMAIN ret.before.guided_steps : ~ret.before.guided_steps[i].completed
    /\ \E i \in DOMAIN ret.before.guided_steps : ret.before.guided_steps[i].completed

\* the tasks of a session that are neither COMPLETED nor FAILED
OpenTasks(session) ==
    {t \in DOMAIN session.tasks : session.tasks[t].status \in {PENDING, RUNNING}}

\* C24: a session has exactly the five fixed tasks, and
\* is_all_tasks_completed is true exactly when none of them is PENDING or
\* RUNNING, however many of them FAILED
C24_AllTasksCompleted ==
    ret.op = "is_all_tasks_completed" =>
        /\ DOMAIN sessions["s1"].tasks = TaskNames
        /\ Cardinality(TaskNames) = 5
        /\ ret.result = (OpenTasks(sessions["s1"]) = {})

\* is_all_tasks_completed returned True for a session with FAILED tasks
C24_Witness ==
    /\ ret.op = "is_all_tasks_completed"
    /\ ret.result
    /\ \E t \in TaskNames : sessions["s1"].tasks[t].status = FAILED
    /\ \E t \in TaskNames : sessions["s1"].tasks[t].status = COMPLETED

\* the fields a serialized session has to give back
RoundTripFields ==
    {"session_id", "conversation_state", "tasks", "phase2_state", "guided_steps",
     "current_step_index", "step_conversation_history"}

\* C25: the dictionary of a session holds the session id, the conversation
\* state, the tasks with status, result and error, and the Phase-2 fields
\* phase2_state, guided_steps, current_step_index and
\* step_conversation_history, each with the value the session has, so that
\* reading the dictionary back gives the same session
C25_RoundTrip ==
    ret.op = "to_dict" =>
        \A f \in RoundTripFields :
            /\ f \in DOMAIN ret.result
            /\ ret.result[f] = sessions["s1"][f]

\* the history a step starts with: the opening line and the first question
\* as one assistant turn
FreshHistory == <<Entry("assistant", <<"opening", "question">>)>>

\* the step of a turn: slot t was at position from and is at position to
TurnStep(t, from, to) == turns[t].pc = from /\ turns'[t].pc = to

\* C26: a guided turn whose evaluation said complete for the step it was
\* sent for (position p in the list, index p - 1) marks that step and no
\* other, and leaves the index at p; when more steps follow it ends in
\* GUIDING_STEP with the history of the next step holding one assistant
\* turn, and after the last step it ends in COMPLETED
C26_CompleteAdvances ==
    [][\A t \in TurnIds :
        LET s == turns[t].session_id
            p == turns[t].current_step
        IN  /\ TurnStep(t, "summary_saved", "step_feedback") =>
                  /\ sessions'[s].guided_steps =
                        [sessions[s].guided_steps EXCEPT ![p].completed = TRUE]
                  /\ sessions'[s].current_step_index = p
                  /\ sessions'[s].phase2_state = sessions[s].phase2_state
                  /\ turns'[t].all_done = (p = Len(sessions[s].guided_steps))
            /\ (TurnStep(t, "next_question", "idle") /\ sessions' # sessions) =>
                  /\ sessions'[s].phase2_state = GUIDING_STEP
                  /\ sessions'[s].step_conversation_history = FreshHistory
                  /\ sessions'[s].guided_steps = sessions[s].guided_steps
                  /\ sessions'[s].current_step_index = sessions[s].current_step_index
            /\ (TurnStep(t, "summary", "idle") /\ sessions' # sessions) =>
                  /\ sessions'[s].phase2_state = COMPLETED
                  /\ sessions'[s].guided_steps = sessions[s].guided_steps
    ]_vars

\* C27: when a guided turn stops between the marking of its step and the
\* start of the next one, because the client went away or the question
\* stream failed, the session is not left in GUIDING_STEP on the next step
\* with the conversation of the finished step as its history; and no step
\* of a turn takes a message out of the history other than by starting the
\* next step
C27_CutOffKeepsState ==
    [][/\ \A t \in TurnIds :
            LET s == turns[t].session_id
            IN  (/\ turns[t].pc \in {"step_feedback", "next_question"}
                 /\ ~turns[t].all_done
                 /\ turns'[t].pc = "idle"
                 /\ sessions'[s].phase2_state = GUIDING_STEP)
                    => sessions'[s].step_conversation_history = FreshHistory
       /\ \A s \in DOMAIN sessions :
            \/ IsPrefix(sessions[s].step_conversation_history,
                        sessions'[s].step_conversation_history)
            \/ sessions'[s].step_conversation_history = FreshHistory
    ]_vars

\* C28: the history of a guided step never holds more than 3 replies of
\* the student
C28_RepliesBounded ==
    \A s \in DOMAIN sessions :
        sessions[s].phase2_state = GUIDING_STEP =>
            student_reply_count(sessions[s].step_conversation_history) <= ReplyCap

\* what a step of a turn may not touch in the continue path
GuidedFrame(s) ==
    /\ sessions'[s].phase2_state = sessions[s].phase2_state
    /\ sessions'[s].current_step_index = sessions[s].current_step_index
    /\ sessions'[s].guided_steps = sessions[s].guided_steps

\* C29: a guided turn whose message is no escape and whose evaluation said
\* continue appends the user message when it arrives and one assistant turn
\* when the guiding reply has been streamed, and changes nothing else of
\* the session: phase2_state, current_step_index and the steps stay
C29_ContinueFrame ==
    [][\A t \in TurnIds :
        LET s == turns'[t].session_id
            u == turns[t].session_id
        IN  /\ TurnStep(t, "idle", "evaluate") =>
                  /\ \E m \in TutorMessages :
                        /\ ~check_escape(m)
                        /\ sessions'[s].step_conversation_history =
                              Append(sessions[s].step_conversation_history, Entry("user", m))
                  /\ GuidedFrame(s)
            /\ TurnStep(t, "evaluate", "guide") => sessions' = sessions
            /\ (TurnStep(t, "guide", "idle") /\ sessions' # sessions) =>
                  /\ \E e \in {Entry("assistant", <<"summary", "reply">>)} :
                        sessions'[u].step_conversation_history =
                            Append(sessions[u].step_conversation_history, e)
                  /\ GuidedFrame(u)
                  /\ turns[t].appended = 1
    ]_vars

\* a turn that was told to continue has ended: the first step's history
\* holds the first question, the student's reply and the guiding reply
C29_Witness ==
    /\ \A t \in TurnIds : turns[t].pc = "idle"
    /\ sessions["s1"].phase2_state = GUIDING_STEP
    /\ sessions["s1"].current_step_index = 0
    /\ Len(sessions["s1"].step_conversation_history) = 3
    /\ sessions["s1"].step_conversation_history[2].role = "user"
    /\ sessions["s1"].step_conversation_history[3] = Entry("assistant", <<"summary", "reply">>)

\* C30: a turn that starts the guided mode stores a style only when it
\* arrives, and when its first question has been streamed it leaves the
\* session with a list of 3 to 7 steps, numbered from 0 and none completed,
\* current_step_index 0, phase2_state GUIDING_STEP and a history of one
\* assistant turn
C30_GuidedInit ==
    [][\A t \in TurnIds :
        LET s == turns'[t].session_id
            u == turns[t].session_id
        IN  /\ TurnStep(t, "idle", "guided_init") =>
                  /\ sessions[s].phase2_state = AWAITING_MODE
                  /\ sessions'[s].tutoring_style = GUIDED
                  /\ sessions' = [sessions EXCEPT ![s].tutoring_style = GUIDED]
            /\ (TurnStep(t, "guided_init", "idle") /\ sessions' # sessions) =>
                  /\ Len(sessions'[u].guided_steps) \in MinSteps..MaxGuidedSteps
                  /\ \A i \in DOMAIN sessions'[u].guided_steps :
                        /\ sessions'[u].guided_steps[i].index = i - 1
                        /\ ~sessions'[u].guided_steps[i].completed
                  /\ sessions'[u].current_step_index = 0
                  /\ sessions'[u].phase2_state = GUIDING_STEP
                  /\ sessions'[u].step_conversation_history = FreshHistory
                  /\ sessions' = [sessions EXCEPT
                        ![u].guided_steps = sessions'[u].guided_steps,
                        ![u].current_step_index = 0,
                        ![u].phase2_state = GUIDING_STEP,
                        ![u].step_conversation_history = FreshHistory]
    ]_vars

\* the guided mode has been started and no turn is in flight
C30_Witness ==
    /\ \A t \in TurnIds : turns[t].pc = "idle"
    /\ sessions["s1"].tutoring_style = GUIDED
    /\ sessions["s1"].phase2_state = GUIDING_STEP
    /\ sessions["s1"].current_step_index = 0
    /\ Len(sessions["s1"].guided_steps) = MaxSteps
    /\ sessions["s1"].step_conversation_history = FreshHistory

\* the chunks a suspended request has streamed so far
Streamed(t, chunk) == \E i \in DOMAIN turns[t].streamed : turns[t].streamed[i] = chunk

\* C31: whenever the solution renderer (_output_direct_solution, entered by
\* the DIRECT choice or by an escape) ends by storing phase2_state =
\* COMPLETED, the request has streamed the session's solution text
C31_SolutionStreamed ==
    [][\A t \in TurnIds :
        LET s == turns[t].session_id IN
        (/\ turns[t].pc = "direct_solution"
         /\ turns'[t].pc = "idle"
         /\ sessions'[s].phase2_state = COMPLETED)
        => Streamed(t, "solution")
    ]_vars

\* C32: an evaluation chain that raises makes evaluate_completion return
\* false: the turn goes on into guide_step and is not ended by the error,
\* it stores nothing when the evaluation returns, and up to its end it
\* leaves current_step_index, phase2_state and the steps (so their
\* completed flags) as they are
C32_EvaluationFailOpen ==
    /\ [](\A call \in EvaluationCalls : call.raised => ~is_complete(call))
    /\ [](\A t \in TurnIds : turns[t].failed => turns[t].pc = "guide")
    /\ [][\A t \in TurnIds :
            LET s == turns[t].session_id
            IN  /\ (turns[t].pc = "evaluate" /\ turns'[t].failed) => sessions' = sessions
                /\ (turns[t].failed /\ turns'[t] # turns[t]) =>
                      /\ turns'[t].pc = "idle"
                      /\ GuidedFrame(s)
       ]_vars

\* the evaluation of an answer has failed and the turn is in guide_step
C32_Witness ==
    \E t \in TurnIds :
        /\ turns[t].failed
        /\ turns[t].pc = "guide"
        /\ turns[t].reply_count >= 1
        /\ sessions[turns[t].session_id].phase2_state = GUIDING_STEP

\* step i of session s is completed before / after the step
CompletedAt(steps, i) == i \in DOMAIN steps /\ steps[i].completed

\* C33: a completed flag that is set stays set, and a flag is newly set
\* only by the escape path or, by a guided turn whose evaluation said
\* complete, for the step that turn read as current when it arrived
C33_CompletedOnce ==
    [][\A s \in DOMAIN sessions :
        \A i \in 1..MaxGuidedSteps :
            /\ CompletedAt(sessions[s].guided_steps, i)
                  => CompletedAt(sessions'[s].guided_steps, i)
            /\ (~CompletedAt(sessions[s].guided_steps, i)
                    /\ CompletedAt(sessions'[s].guided_steps, i))
                  => \E t \in TurnIds :
                        /\ turns'[t] # turns[t]
                        /\ turns[t].session_id = s
                        /\ \/ turns[t].path = "escape"
                           \/ /\ turns[t].pc = "summary_saved"
                              /\ turns[t].current_step = i
    ]_vars

\* the session field a task's result is written to
ResultFieldOf(task_name) ==
    CASE task_name = "vision_extraction" -> "question_text"
      [] task_name = "exam_points" -> "exam_points"
      [] task_name = "deep_solution" -> "solution"
      [] task_name = "knowledge_points" -> "knowledge_points"
      [] task_name = "logic_chain" -> "logic_chain_steps"

\* C34: when the event of a task's success is published, the session
\* exists, the task's status is COMPLETED with its result attached, and the
\* task's result field of the session (question_text for
\* vision_extraction, solution for deep_solution, ...) is set
C34_ResultBeforeEvent ==
    [][\A s \in SessionIds : \A task \in TaskNames :
        (/\ Publishes(s)
         /\ NewEvent(s).task = task
         /\ NewEvent(s).type = event_type_map(task))
        => /\ s \in DOMAIN sessions
           /\ Status(s, task) = COMPLETED
           /\ sessions[s].tasks[task].result # NULL
           /\ sessions[s][ResultFieldOf(task)] # NULL
    ]_vars

\* the events of the extracted question and of the solution are out
C34_Witness ==
    \E s \in SessionIds :
        /\ EventsOf(s, "question_extracted", "vision_extraction") # {}
        /\ EventsOf(s, "solution_ready", "deep_solution") # {}
        /\ s \in DOMAIN sessions
        /\ sessions[s].solution # NULL

\* C35: for every task of every session, result is present exactly when
\* the status is COMPLETED and error is present exactly when it is FAILED
C35_ResultIffCompleted ==
    \A s \in DOMAIN sessions : \A task \in TaskNames :
        /\ sessions[s].tasks[task].result # NULL <=> Status(s, task) = COMPLETED
        /\ sessions[s].tasks[task].error # NULL <=> Status(s, task) = FAILED

\* C36: a task that is RUNNING is COMPLETED or FAILED at some later time,
\* as long as its session is kept
C36_NoTaskHangs ==
    \A s \in SessionIds : \A task \in TaskNames :
        (s \in DOMAIN sessions /\ Status(s, task) = RUNNING)
            ~> (s \notin DOMAIN sessions \/ Status(s, task) \in Terminal)

\* the positions from which a guided turn runs on without calling the
\* store: after evaluate_completion returned, and in _complete_step from
\* the saved summary up to the stream of the next question
NoStoreCallPcs == {"evaluate", "summary_saved", "step_feedback"}

\* C37: the stored sessions change only inside a store operation: a part
\* of a Phase-2 turn that makes no store call leaves every stored session
\* as it is
C37_StoreOwnsSessions ==
    [][\A t \in TurnIds :
        (turns[t].pc \in NoStoreCallPcs /\ turns'[t] # turns[t]) => sessions' = sessions
    ]_vars

\* C38: a Phase-2 message, escape phrase or not, that arrives for a session
\* whose phase2_state is COMPLETED is answered with the follow-up lines and
\* nothing else, the request ends there, and no stored session changes
C38_CompletedAbsorbing ==
    [][\A t \in TurnIds : \A s \in DOMAIN sessions : \A m \in TutorMessages :
        (/\ sessions[s].phase2_state = COMPLETED
         /\ process_phase2_message_stream(t, s, m))
        => /\ ret'.response = <<"followup">>
           /\ ret'.message = m
           /\ turns'[t].pc = "idle"
           /\ sessions' = sessions
    ]_vars

\* an escape phrase was sent to a session that had completed its guided
\* steps, and was answered with the follow-up
C38_Witness ==
    /\ ret.op = "process_phase2_message_stream"
    /\ ret.response = <<"followup">>
    /\ check_escape(ret.message)
    /\ sessions[ret.session_id].phase2_state = COMPLETED
    /\ sessions[ret.session_id].guided_steps # <<>>
    /\ \A t \in TurnIds : turns[t].pc = "idle"

\* C39: a session id with pending events has no subscriber registered
C39_PendingOnlyWithoutSubscriber ==
    \A s \in PublisherIds : get_pending_count(s) > 0 => ~has_subscribers(s)

\* events are pending for one session while the other has a subscriber
\* that came and took its own backlog
C39_Witness ==
    \E s, o \in PublisherIds :
        /\ get_pending_count(s) = max_pending_events
        /\ ~has_subscribers(s)
        /\ has_subscribers(o)
        /\ \E q \in subscribers[o] : queues[q].backlog > 0

\* C40: with one request at a time, whenever no request is being processed
\* each guided step (position i, list index i - 1) is completed exactly
\* when its list index is below current_step_index
C40_CompletedBelowCursor ==
    (\A t \in TurnIds : turns[t].pc = "idle") =>
        \A s \in DOMAIN sessions : \A i \in DOMAIN sessions[s].guided_steps :
            sessions[s].guided_steps[i].completed <=> i - 1 < sessions[s].current_step_index

\* between two turns of the guided mode, the first step answered and the
\* second one asked
C40_Witness ==
    /\ \A t \in TurnIds : turns[t].pc = "idle"
    /\ sessions["s1"].phase2_state = GUIDING_STEP
    /\ sessions["s1"].current_step_index = 1
    /\ sessions["s1"].guided_steps[1].completed
    /\ ~sessions["s1"].guided_steps[2].completed
    /\ sessions["s1"].step_conversation_history = FreshHistory

====
